---- MODULE Spec2Model ----
(***************************************************************************)
(* A model of the GitHub community-health crawler of src/index.js:         *)
(*   - the record store (removeDuplicateRepos, the JSON checkpoint),       *)
(*   - the existence probe (doesAnyFileExist over fetchWithRetryAndLogging),*)
(*   - the attribute collectors and the batch orchestrator (doBatch, main). *)
(* The specifications of the module: SpecMerge (the merge as a pure        *)
(* function of a saved checkpoint and a discovery page), SpecProbe (one    *)
(* call of doesAnyFileExist with its concurrent fetches), SpecThrottle     *)
(* (one request under the rate-limit handlers), Spec (the whole process:   *)
(* main, doBatch, the collectors, shutdown), SpecResume (the same process  *)
(* started over a checkpoint), SpecRecovery (main's handler chain),        *)
(* SpecTermination (the same under fairness), SpecSchedule (main's timing  *)
(* and what runs at a time) and SpecWorkflows (getWorkflows over every     *)
(* answer of its page).                                                    *)
(***************************************************************************)
EXTENDS Integers, Sequences, FiniteSets, TLC

VARIABLES
    \* ---- doBatch / main (src/index.js:744-827)
    repos,        \* the global `repos`: [null |-> BOOLEAN, list |-> Seq(record)]
    savedRepos,   \* doBatch's local savedRepos
    newRepos,     \* doBatch's local newRepos
    remote,       \* what the platform serves for each repository (fixed input)
    file,         \* repos.json: [state |-> "missing" | "ok", data |-> Seq(record)]
    arff,         \* github.arff: [written |-> BOOLEAN, rows |-> Seq(record)]
    pc,           \* where main / doBatch is suspended
    phase,        \* "initial" (lines 795-804) or "loop" (lines 806-824)
    live,         \* doBatch's (query && sort)
    iteration,    \* live batches started so far (main's loop variable i)
    handlers,     \* .catch(e => cleanUpBatch(e)) handlers left in the chain
    col,          \* the collector that is running (index into Collectors)
    idx,          \* the record its for-loop is at
    requested,    \* the last turn of a collector's loop issued a request
    faults,       \* transient faults injected so far
    failed,       \* the batch's try block threw
    filtered,     \* line 770 ran in this batch
    numFilteredOut, \* line 771: the records line 770 removed
    remerged,     \* SpecMerge only: the merge applied a second time
    mergePc,      \* SpecMerge only: "init" | "merged" | "remerged"
    \* ---- doesAnyFileExist (src/index.js:379-396)
    urls,         \* the number of candidate urls of the call
    fetches,      \* per candidate: the state of its fetchWithRetryAndLogging
    probe,        \* the promise doesAnyFileExist returns
    \* ---- one request of the octokit client (src/index.js:13-53)
    call,         \* its retry count, what it has met so far, how it ended
    \* ---- main's schedule (src/index.js:689-722, 784-827), SpecSchedule only
    sinceLive,    \* minutes since the latest live batch started, up to InterBatchMinutes
    timer,        \* the sleep of line 810: "off" | "pending" | "fired"
    cool,         \* minutes left of cleanUpBatch's sleep (line 787)
    active,       \* calls of doBatch that have not settled
    outcome,      \* the doBatch main awaits: "none" | "running" | "resolved" | "rejected"
    collecting    \* the collectors (indices into Collectors) that are executing

storeVars == <<repos, savedRepos, newRepos>>
batchVars == <<remote, file, arff, pc, phase, live, iteration, handlers, col, idx, requested,
               faults, failed, filtered, numFilteredOut>>
mergeVars == <<remerged, mergePc>>
probeVars == <<urls, fetches, probe>>
throttleVars == <<call>>
scheduleVars == <<sinceLive, timer, cool, active, outcome, collecting>>
vars == <<repos, savedRepos, newRepos, remote, file, arff, pc, phase, live, iteration,
          handlers, col, idx, requested, faults, failed, filtered, numFilteredOut,
          remerged, mergePc, urls, fetches, probe, call,
          sinceLive, timer, cool, active, outcome, collecting>>

(***************************************************************************)
(* Bounds of the model.                                                    *)
(***************************************************************************)
MaxSaved == 2        \* records in a saved checkpoint (SpecMerge)
MaxPage == 3         \* records in one discovery page (SpecMerge)
MaxCandidates == 3   \* candidate urls of one probe
MaxPerPage == 2      \* records one search returns (Spec)
MaxLive == 2         \* iterations of main's loop, for the 100 of line 806
MaxFaults == 1       \* transient faults in one run
FinishedThreshold == 1   \* for the 10000 of line 775

\* the .catch(e => cleanUpBatch(e)) handlers of lines 796-804, and
\* cleanUpBatch(e) with its handlers of lines 813-822
InitialHandlers == 9
LoopHandlers == 10

Owners == {"o1", "o2"}
Names == {"r1", "r2"}

(***************************************************************************)
(* JavaScript values and objects.  A repo object is a function from its    *)
(* own property names to values: hasOwnProperty is membership in DOMAIN.   *)
(***************************************************************************)
hasOwnProperty(repo, key) == key \in DOMAIN repo

SetProp(repo, key, val) ==
    [k \in DOMAIN repo \cup {key} |-> IF k = key THEN val ELSE repo[k]]

\* The numbers a scraped counter can become: a number, NaN, or (after a
\* round trip through JSON) null.
Num(n) == [t |-> "number", v |-> n]
NaN == [t |-> "NaN", v |-> 0]
Null == [t |-> "null", v |-> 0]

\* ToBoolean of such a value: 0, NaN and null are falsy
Truthy(val) == val.t = "number" /\ val.v # 0

\* The text of an element, and unary plus on text.trim(): '' is 0, digits
\* are their number, anything else ('1,234') is NaN.
Text(kind, n) == [kind |-> kind, n |-> n]

ToNumber(text) ==
    CASE text.kind = "digits" -> Num(text.n)
      [] text.kind = "empty" -> Num(0)
      [] OTHER -> NaN

\* One element of the array getListOfRepos returns: the trimmed search result.
\* stargazers_count stands for the whole discovery snapshot (description,
\* timestamps, counts, flags, license, topics), which is copied field by field.
SearchResult(owner, name, stars) ==
    [k \in {"owner", "repo", "stargazers_count"} |->
        CASE k = "owner" -> owner
          [] k = "repo" -> name
          [] OTHER -> stars]

(***************************************************************************)
(* removeDuplicateRepos (src/index.js:683-687).                            *)
(***************************************************************************)
SameRepo(r, repo) == r["owner"] = repo["owner"] /\ r["repo"] = repo["repo"]

\* Array.prototype.findIndex with the identity predicate; indices are 1-based
\* here and 0 stands for JavaScript's -1.
findIndex(list, repo) ==
    IF \E j \in 1..Len(list) : SameRepo(list[j], repo)
    THEN CHOOSE j \in 1..Len(list) :
            /\ SameRepo(list[j], repo)
            /\ \A k \in 1..(j - 1) : ~SameRepo(list[k], repo)
    ELSE 0

findLastIndex(list, repo) ==
    IF \E j \in 1..Len(list) : SameRepo(list[j], repo)
    THEN CHOOSE j \in 1..Len(list) :
            /\ SameRepo(list[j], repo)
            /\ \A k \in (j + 1)..Len(list) : ~SameRepo(list[k], repo)
    ELSE 0

RECURSIVE FilterFirst(_, _)
FilterFirst(list, n) ==
    IF n = 0 THEN <<>>
    ELSE IF n = findIndex(list, list[n])
         THEN Append(FilterFirst(list, n - 1), list[n])
         ELSE FilterFirst(list, n - 1)

RECURSIVE FilterLast(_, _)
FilterLast(list, n) ==
    IF n = 0 THEN <<>>
    ELSE IF n = findLastIndex(list, list[n])
         THEN Append(FilterLast(list, n - 1), list[n])
         ELSE FilterLast(list, n - 1)

\* i === array.indexOf(r): every object is its own first occurrence
removeDuplicateRepos_indexOf(listOfRepos) == listOfRepos

removeDuplicateRepos_keepLast(listOfRepos) == FilterLast(listOfRepos, Len(listOfRepos))

removeDuplicateRepos(listOfRepos) == FilterFirst(listOfRepos, Len(listOfRepos))

(***************************************************************************)
(* SpecMerge: the merge of doBatch, line 764, on a saved checkpoint and a  *)
(* discovery page drawn from bounded sets.                                 *)
(***************************************************************************)
Identities == Owners \X Names

\* A record of a saved checkpoint: discovered earlier (11 stars then) and
\* enriched by the contributor-count collector since.
SavedRecord(id) ==
    SetProp(SearchResult(id[1], id[2], 11), "contributor_count", Num(3))

\* The same repository as a later search returns it.
FreshRecord(id) == SearchResult(id[1], id[2], 12)

RECURSIVE SeqsUpTo(_, _)
SeqsUpTo(S, n) ==
    IF n = 0 THEN {<<>>}
    ELSE LET shorter == SeqsUpTo(S, n - 1)
         IN  shorter \cup {Append(s, x) : s \in shorter, x \in S}

NoDuplicates(list) ==
    \A a, b \in 1..Len(list) : SameRepo(list[a], list[b]) => a = b

SavedCheckpoints ==
    {s \in SeqsUpTo({SavedRecord(id) : id \in Identities}, MaxSaved) : NoDuplicates(s)}

DiscoveryPages == SeqsUpTo({FreshRecord(id) : id \in Identities}, MaxPage)

NullRepos == [null |-> TRUE, list |-> <<>>]
ReposOf(list) == [null |-> FALSE, list |-> list]

BatchIdle ==
    /\ remote = <<>>
    /\ file = [state |-> "missing", data |-> <<>>]
    /\ arff = [written |-> FALSE, rows |-> <<>>]
    /\ pc = "idle"
    /\ phase = "none"
    /\ live = FALSE
    /\ iteration = 0
    /\ handlers = 0
    /\ col = 0
    /\ idx = 0
    /\ requested = FALSE
    /\ faults = 0
    /\ failed = FALSE
    /\ filtered = FALSE
    /\ numFilteredOut = 0

ProbeIdle ==
    /\ urls = 0
    /\ fetches = <<>>
    /\ probe = "idle"

ThrottleIdle == call = [state |-> "idle"]

ScheduleIdle ==
    /\ sinceLive = 0
    /\ timer = "off"
    /\ cool = 0
    /\ active = 0
    /\ outcome = "none"
    /\ collecting = {}

MergeInit ==
    /\ savedRepos \in SavedCheckpoints
    /\ newRepos \in DiscoveryPages
    /\ repos = NullRepos
    /\ remerged = <<>>
    /\ mergePc = "init"
    /\ BatchIdle
    /\ ProbeIdle
    /\ ThrottleIdle
    /\ ScheduleIdle

\* repos = removeDuplicateRepos([...savedRepos, ...newRepos])
Merge ==
    /\ mergePc = "init"
    /\ repos' = ReposOf(removeDuplicateRepos(savedRepos \o newRepos))
    /\ mergePc' = "merged"
    /\ UNCHANGED <<savedRepos, newRepos, remerged>>
    /\ UNCHANGED <<batchVars, probeVars, throttleVars, scheduleVars>>

\* the next batch's merge when the same page is discovered again
MergeAgain ==
    /\ mergePc = "merged"
    /\ remerged' = removeDuplicateRepos(repos.list \o newRepos)
    /\ mergePc' = "remerged"
    /\ UNCHANGED <<repos, savedRepos, newRepos>>
    /\ UNCHANGED <<batchVars, probeVars, throttleVars, scheduleVars>>

MergeNext == Merge \/ MergeAgain

SpecMerge == MergeInit /\ [][MergeNext]_vars

\* The identity (owner, name) of a record, read off the record itself.
Identity(r) == <<r["owner"], r["repo"]>>

IdentitiesOf(list) == {Identity(list[j]) : j \in 1..Len(list)}

FirstAt(list, id) ==
    CHOOSE j \in 1..Len(list) :
        /\ Identity(list[j]) = id
        /\ \A k \in 1..(j - 1) : Identity(list[k]) # id

\* C4: merge keeps, for each identity, the first occurrence in
\* savedRepos ++ newRepos: the saved records survive unchanged and in place,
\* the records keep their relative order, a discovered record is added only
\* when its identity is not in the checkpoint, and merging the result with the
\* same page again changes nothing.
C4_MergeKeepsFirstOccurrence ==
    mergePc # "init" =>
        LET all == savedRepos \o newRepos
            out == repos.list
        IN  /\ IdentitiesOf(out) = IdentitiesOf(all)
            /\ \A j \in 1..Len(out) : out[j] = all[FirstAt(all, Identity(out[j]))]
            /\ \A a, b \in 1..Len(out) :
                  a < b => FirstAt(all, Identity(out[a])) < FirstAt(all, Identity(out[b]))
            /\ Len(out) >= Len(savedRepos)
            /\ SubSeq(out, 1, Len(savedRepos)) = savedRepos
            /\ \A j \in (Len(savedRepos) + 1)..Len(out) :
                  /\ Identity(out[j]) \notin IdentitiesOf(savedRepos)
                  /\ \E k \in 1..Len(newRepos) : newRepos[k] = out[j]
            /\ (mergePc = "remerged" => remerged = out)

\* a merge that had something to do: an identity both saved and rediscovered,
\* a page with the same identity twice, and a new identity that was added
C4_Witness ==
    /\ mergePc = "remerged"
    /\ IdentitiesOf(savedRepos) \cap IdentitiesOf(newRepos) # {}
    /\ Len(newRepos) > Cardinality(IdentitiesOf(newRepos))
    /\ Len(repos.list) > Len(savedRepos)

(***************************************************************************)
(* fetchWithRetryAndLogging (src/index.js:17-22) and doesAnyFileExist      *)
(* (src/index.js:379-396).  One fetch is                                   *)
(*   [attempts: calls of fetch() made, failures: of them rejected,         *)
(*    state: "pending" | "response" | "failed", status].                   *)
(***************************************************************************)
Statuses == {200, 404, 429, 500}

\* fetch(url, { method }): the first attempt is in flight
fetchWithRetryAndLogging == [attempts |-> 1, failures |-> 0, state |-> "pending", status |-> 0]

onResponse(f, status) == [f EXCEPT !.state = "response", !.status = status]

\* a fetch() promise rejects (DNS, connection reset): the one .catch tries
\* again, and the rejection of that second fetch is the promise's own
onRejection_retryTwice(f) ==
    IF f.attempts <= 2
    THEN [f EXCEPT !.failures = f.failures + 1, !.attempts = f.attempts + 1]
    ELSE [f EXCEPT !.failures = f.failures + 1, !.state = "failed"]

onRejection(f) ==
    IF f.attempts = 1
    THEN [f EXCEPT !.failures = 1, !.attempts = 2]
    ELSE [f EXCEPT !.failures = f.failures + 1, !.state = "failed"]

\* the .then of line 384: fulfilled with true on 200, rejected with the
\* status otherwise; a failed fetch rejects with its error
Fulfilled(f) == f.state = "response" /\ f.status = 200
Rejected(f) == f.state = "failed" \/ (f.state = "response" /\ f.status # 200)
RejectedWith404(f) == f.state = "response" /\ f.status = 404

\* Promise.any(...).catch(...): settled by the first fulfilment, or by the
\* last rejection; a settled promise stays as it is
doesAnyFileExist_allSettled(fs, current) ==
    IF current # "pending" THEN current
    ELSE IF \E i \in DOMAIN fs : fs[i].state = "pending" THEN "pending"
    ELSE IF \E i \in DOMAIN fs : Fulfilled(fs[i]) THEN "true"
    ELSE IF \A i \in DOMAIN fs : RejectedWith404(fs[i]) THEN "false"
    ELSE "error"

doesAnyFileExist_some404(fs, current) ==
    IF current # "pending" THEN current
    ELSE IF \E i \in DOMAIN fs : Fulfilled(fs[i]) THEN "true"
    ELSE IF \A i \in DOMAIN fs : Rejected(fs[i])
         THEN IF \E i \in DOMAIN fs : RejectedWith404(fs[i]) THEN "false" ELSE "error"
    ELSE "pending"

doesAnyFileExist(fs, current) ==
    IF current # "pending" THEN current
    ELSE IF \E i \in DOMAIN fs : Fulfilled(fs[i]) THEN "true"
    ELSE IF \A i \in DOMAIN fs : Rejected(fs[i])
         THEN IF \A i \in DOMAIN fs : RejectedWith404(fs[i]) THEN "false" ELSE "error"
    ELSE "pending"

MergeIdle ==
    /\ repos = NullRepos
    /\ savedRepos = <<>>
    /\ newRepos = <<>>
    /\ remerged = <<>>
    /\ mergePc = "idle"

\* doesAnyFileExist(urls) has been called: every candidate's HEAD is in flight
ProbeInit ==
    /\ urls \in 1..MaxCandidates
    /\ fetches = [i \in 1..urls |-> fetchWithRetryAndLogging]
    /\ probe = "pending"
    /\ MergeIdle
    /\ BatchIdle
    /\ ThrottleIdle
    /\ ScheduleIdle

FetchResponds(i, status) ==
    /\ fetches[i].state = "pending"
    /\ fetches' = [fetches EXCEPT ![i] = onResponse(@, status)]
    /\ probe' = doesAnyFileExist(fetches', probe)
    /\ UNCHANGED urls
    /\ UNCHANGED <<storeVars, batchVars, mergeVars, throttleVars, scheduleVars>>

FetchRejects(i) ==
    /\ fetches[i].state = "pending"
    /\ fetches' = [fetches EXCEPT ![i] = onRejection(@)]
    /\ probe' = doesAnyFileExist(fetches', probe)
    /\ UNCHANGED urls
    /\ UNCHANGED <<storeVars, batchVars, mergeVars, throttleVars, scheduleVars>>

ProbeNext ==
    \E i \in 1..urls :
        \/ \E status \in Statuses : FetchResponds(i, status)
        \/ FetchRejects(i)

SpecProbe == ProbeInit /\ [][ProbeNext]_vars

\* C7: the probe is true whenever a candidate has answered 200, whatever the
\* others did and whether or not they have answered yet.
C7_FirstSuccessWins ==
    (\E i \in 1..urls : fetches[i].state = "response" /\ fetches[i].status = 200)
        => probe = "true"

\* [A: 404, B: 200, C: still in flight]: resolved without waiting for C
C7_Witness ==
    /\ probe = "true"
    /\ \E i \in 1..urls : fetches[i].state = "pending"
    /\ \E i \in 1..urls : fetches[i].state = "response" /\ fetches[i].status = 404

\* C8: the probe is false exactly when every candidate has answered and
\* every answer was 404.
C8_FalseIffAll404 ==
    probe = "false" <=>
        \A i \in 1..urls : fetches[i].state = "response" /\ fetches[i].status = 404

C8_Witness ==
    /\ probe = "false"
    /\ urls >= 2
    /\ \E i \in 1..urls : fetches[i].attempts = 2

\* C9: when every candidate has settled, none with 200 and at least one with
\* something other than 404, the probe has failed with an error.
C9_ErrorUnlessAll404 ==
    ( /\ \A i \in 1..urls : fetches[i].state # "pending"
      /\ \A i \in 1..urls : ~(fetches[i].state = "response" /\ fetches[i].status = 200)
      /\ \E i \in 1..urls : ~(fetches[i].state = "response" /\ fetches[i].status = 404) )
        => probe = "error"

\* [A: 404, B: 500]
C9_Witness ==
    /\ probe = "error"
    /\ \E i \in 1..urls : fetches[i].state = "response" /\ fetches[i].status = 404
    /\ \E i \in 1..urls : fetches[i].state = "response" /\ fetches[i].status = 500

\* C10: one attempt when the first fetch() connects, two when it does not,
\* never a third; a second connection failure is the caller's error; a
\* response is returned after the attempt that got it, whatever its status.
C10_RetryExactlyOnce ==
    \A i \in 1..urls :
        LET f == fetches[i]
        IN  /\ f.attempts \in {1, 2}
            /\ f.attempts = (IF f.failures = 0 THEN 1 ELSE 2)
            /\ (f.state = "failed" <=> f.failures = 2)
            /\ f.failures <= 2
            /\ (f.state = "response" => f.failures < 2)

\* a 500 on the first attempt, a response on the retry, and a double failure
C10_Witness ==
    /\ \E i \in 1..urls :
          fetches[i].state = "response" /\ fetches[i].status = 500 /\ fetches[i].attempts = 1
    /\ \E i \in 1..urls : fetches[i].state = "response" /\ fetches[i].attempts = 2
    /\ \E i \in 1..urls : fetches[i].state = "failed"

(***************************************************************************)
(* SpecThrottle: one request of the octokit client with the throttling     *)
(* plugin (src/index.js:13-15, 24-53).  The plugin counts the retries it   *)
(* has been granted in options.request.retryCount, from 0; on a signal it  *)
(* asks the handler, and repeats the request after retryAfter seconds when *)
(* the handler returns a truthy value.                                     *)
(*   call = [caller, retryAfter, retryCount, attempts, limited, abused,    *)
(*           floors, warned, state, result]                                *)
(***************************************************************************)
MaxAttempts == 6     \* attempts of one request the model follows

\* the functions that call the client, and those that catch its error
Callers == {"getListOfRepos", "getCommunityProfileMetrics", "getLanguages",
            "getDeployments", "getEnvironments"}
CallersWithFallback == {"getDeployments", "getEnvironments"}

\* the retry-after seconds the server can name: 0, below and at the floor of
\* line 40, above the minute of line 44
RetryAfters == {0, 9, 10, 75}

\* lines 35-48: one more second when retryAfter < 10; a retry while
\* retryCount <= 2, undefined otherwise
onRateLimit_once(retryAfter, retryCount) ==
    [floor |-> IF retryAfter < 10 THEN 1 ELSE 0, retry |-> retryCount < 1]

onRateLimit(retryAfter, retryCount) ==
    [floor |-> IF retryAfter < 10 THEN 1 ELSE 0, retry |-> retryCount <= 2]

\* lines 49-52: a warning, and undefined
onAbuseLimit_retries(retryAfter, retryCount) == [floor |-> 0, retry |-> TRUE]

onAbuseLimit(retryAfter, retryCount) == [floor |-> 0, retry |-> FALSE]

\* what the caller makes of the rejected request: getEnvironments stores []
\* (line 210), getDeployments nothing (line 189: the status is not 502), the
\* others let the error through
Rejection(caller) == IF caller \in CallersWithFallback THEN "fallback" ELSE "thrown"

ThrottleInit ==
    /\ \E caller \in Callers : \E retryAfter \in RetryAfters :
          call = [caller |-> caller, retryAfter |-> retryAfter, retryCount |-> 0,
                  attempts |-> 0, limited |-> 0, abused |-> 0, floors |-> 0,
                  warned |-> 0, state |-> "pending", result |-> "none"]
    /\ MergeIdle
    /\ BatchIdle
    /\ ProbeIdle
    /\ ScheduleIdle

\* the handler has answered: the plugin repeats the request or rejects it
Handled(met, answer) ==
    IF answer.retry
    THEN [met EXCEPT !.retryCount = met.retryCount + 1,
                     !.floors = met.floors + answer.floor]
    ELSE [met EXCEPT !.floors = met.floors + answer.floor,
                     !.state = "rejected",
                     !.result = Rejection(met.caller)]

\* the request is answered with data
Succeeds ==
    /\ call.state = "pending"
    /\ call.attempts < MaxAttempts
    /\ call' = [call EXCEPT !.attempts = call.attempts + 1,
                            !.state = "fulfilled",
                            !.result = "value"]
    /\ UNCHANGED <<storeVars, batchVars, mergeVars, probeVars, scheduleVars>>

\* the request is answered with the primary rate-limit signal
RateLimited ==
    /\ call.state = "pending"
    /\ call.attempts < MaxAttempts
    /\ call' = Handled([call EXCEPT !.attempts = call.attempts + 1,
                                    !.limited = call.limited + 1,
                                    !.warned = call.warned + 1],
                       onRateLimit(call.retryAfter, call.retryCount))
    /\ UNCHANGED <<storeVars, batchVars, mergeVars, probeVars, scheduleVars>>

\* the request is answered with the abuse-detection signal
AbuseDetected ==
    /\ call.state = "pending"
    /\ call.attempts < MaxAttempts
    /\ call' = Handled([call EXCEPT !.attempts = call.attempts + 1,
                                    !.abused = call.abused + 1,
                                    !.warned = call.warned + 1],
                       onAbuseLimit(call.retryAfter, call.retryCount))
    /\ UNCHANGED <<storeVars, batchVars, mergeVars, probeVars, scheduleVars>>

ThrottleNext ==
    \/ Succeeds
    \/ RateLimited
    \/ AbuseDetected

SpecThrottle == ThrottleInit /\ [][ThrottleNext]_vars

\* C11 as claimed: a request that keeps meeting the primary rate-limit signal
\* is granted at most 2 retries (3 attempts); the third signal in a row is
\* not retried and the request is rejected.
C11_AtMostTwoRetries ==
    call.state # "idle" =>
        /\ call.retryCount <= 2
        /\ (call.limited = 3 /\ call.abused = 0) => call.state = "rejected"

\* C12: a request that met the rate-limit signal on attempts 1 and 2 has been
\* retried exactly twice and is still alive; when attempt 3 is answered with
\* data, that value is what the caller gets.
C12_ThirdAttemptSucceeds ==
    (call.state # "idle" /\ call.limited = 2 /\ call.abused = 0) =>
        /\ call.state # "rejected"
        /\ call.retryCount = 2
        /\ call.state = "pending" => call.attempts = 2
        /\ call.state = "fulfilled" => (call.attempts = 3 /\ call.result = "value")

\* listLanguages: rate-limited, rate-limited, answered
C12_Witness ==
    /\ call.state = "fulfilled"
    /\ call.caller = "getLanguages"
    /\ call.limited = 2
    /\ call.attempts = 3
    /\ call.retryCount = 2
    /\ call.result = "value"

\* C13: the abuse-detection signal is never retried: the handler warns, the
\* request is rejected on that attempt, and a caller without a catch block
\* lets the error through.
C13_AbuseIsNotRetried ==
    (call.state # "idle" /\ call.abused > 0) =>
        /\ call.abused = 1
        /\ call.state = "rejected"
        /\ call.attempts = call.retryCount + 1
        /\ call.retryCount = call.limited
        /\ call.warned = call.limited + call.abused
        /\ call.caller \notin CallersWithFallback => call.result = "thrown"
        /\ call.caller \in CallersWithFallback => call.result = "fallback"

\* listLanguages: rate-limited and retried, then the abuse signal
C13_Witness ==
    /\ call.state = "rejected"
    /\ call.caller = "getLanguages"
    /\ call.limited = 1
    /\ call.abused = 1
    /\ call.attempts = 2
    /\ call.result = "thrown"

(***************************************************************************)
(* What the platform serves for one repository.  The facts are fixed for a *)
(* run; a transient fault can replace any one answer.                      *)
(***************************************************************************)
Healthy ==
    [landing |-> 200, span |-> Text("digits", 2), workflows |-> 200, rows |-> 3,
     community |-> TRUE, readme |-> TRUE, contentLength |-> 7,
     languages |-> <<"JavaScript">>, present |-> TRUE,
     environments |-> <<"production">>, deployments |-> 1, release |-> TRUE,
     labels |-> 9, milestones |-> 200, open |-> 1, closed |-> 2]

\* no sidebar counter (a single contributor), no workflows directory, no
\* community files, no environments
Bare ==
    [landing |-> 200, span |-> Text("absent", 0), workflows |-> 404, rows |-> 0,
     community |-> FALSE, readme |-> FALSE, contentLength |-> 0,
     languages |-> <<>>, present |-> FALSE,
     environments |-> <<>>, deployments |-> 0, release |-> FALSE,
     labels |-> 0, milestones |-> 404, open |-> 0, closed |-> 0]

\* the sidebar counter is there and empty, or reads 0
Zero == [Bare EXCEPT !.span = Text("empty", 0)]

\* the sidebar counter reads '1,234'
Garbled == [Healthy EXCEPT !.span = Text("other", 0)]

\* the repository page answers 500 for the whole run
Broken == [Bare EXCEPT !.landing = 500]

Profiles == {Healthy, Bare, Zero, Garbled, Broken}

\* What can replace the usual answer to one request: an error status, or a
\* connection that fails twice.
FaultKinds == {"http500", "http502", "connection"}

\* fetchWithRetryAndLogging(url) once it has settled: a connection fault
\* fails both attempts, an http fault replaces the status
Fetched(status, fault) ==
    IF fault = "connection"
    THEN onRejection(onRejection(fetchWithRetryAndLogging))
    ELSE onResponse(fetchWithRetryAndLogging,
                    CASE fault = "http500" -> 500
                      [] fault = "http502" -> 502
                      [] OTHER -> status)

\* doesAnyFileExist(urls) once it has settled, for n candidate urls: the file,
\* when there is one, is at the first candidate; a fault hits the last one
Probed(n, present, fault) ==
    doesAnyFileExist(
        [k \in 1..n |->
            IF k = n /\ fault # "none" THEN Fetched(404, fault)
            ELSE IF k = 1 /\ present THEN Fetched(200, "none")
            ELSE Fetched(404, "none")],
        "pending")

(***************************************************************************)
(* The collectors (src/index.js:98-435), each as the body of its for-loop  *)
(* for one repo: the record after it, whether it threw, and whether it     *)
(* issued a request.                                                       *)
(***************************************************************************)
Skipped(repo) == [repo |-> repo, threw |-> FALSE, requested |-> FALSE]
Collected(repo) == [repo |-> repo, threw |-> FALSE, requested |-> TRUE]
Thrown(repo) == [repo |-> repo, threw |-> TRUE, requested |-> TRUE]

\* the catch block of lines 111-114 taken for every count that is no number
getContributorCounts_nanIsOne(repo, web, fault) ==
    IF hasOwnProperty(repo, "contributor_count") THEN Skipped(repo)
    ELSE LET response == Fetched(web.landing, fault)
         IN  IF response.state = "failed" \/ response.status # 200 THEN Thrown(repo)
             ELSE IF web.span.kind = "absent" \/ ToNumber(web.span) = NaN
                  THEN Collected(SetProp(repo, "contributor_count", Num(1)))
                  ELSE Collected(SetProp(repo, "contributor_count", ToNumber(web.span)))

getContributorCounts(repo, web, fault) ==
    IF hasOwnProperty(repo, "contributor_count") THEN Skipped(repo)
    ELSE LET response == Fetched(web.landing, fault)
         IN  IF response.state = "failed" \/ response.status # 200 THEN Thrown(repo)
             ELSE IF web.span.kind = "absent"
                  \* .html() is null and .trim() throws: the catch block
                  THEN Collected(SetProp(repo, "contributor_count", Num(1)))
                  ELSE Collected(SetProp(repo, "contributor_count", ToNumber(web.span)))

\* line 238 left out: a repository without workflows directory is passed over
getWorkflows_404Skips(repo, web, fault) ==
    IF hasOwnProperty(repo, "workflows_count") THEN Skipped(repo)
    ELSE LET response == Fetched(web.workflows, fault)
         IN  IF response.state = "failed" THEN Thrown(repo)
             ELSE IF response.status = 404 THEN Collected(repo)
             ELSE IF response.status # 200 THEN Thrown(repo)
             ELSE IF web.rows # 0
                  THEN Collected(SetProp(repo, "workflows_count", web.rows - 2))
                  ELSE Collected(SetProp(repo, "workflows_count", 0))

getWorkflows(repo, web, fault) ==
    IF hasOwnProperty(repo, "workflows_count") THEN Skipped(repo)
    ELSE LET response == Fetched(web.workflows, fault)
         IN  IF response.state = "failed" THEN Thrown(repo)
             ELSE IF response.status = 404
                  THEN Collected(SetProp(repo, "workflows_count", 0))
             ELSE IF response.status # 200 THEN Thrown(repo)
             ELSE IF web.rows # 0
                  THEN Collected(SetProp(repo, "workflows_count", web.rows - 2))
                  ELSE Collected(SetProp(repo, "workflows_count", 0))

RawReadmeUrl(repo) == <<"raw.githubusercontent.com", repo["owner"], repo["repo"]>>

\* the guard reads a key no record has
getCommunityProfileMetrics_wrongGuard(repo, web, fault) ==
    IF hasOwnProperty(repo, "code_of_conduct") THEN Skipped(repo)
    ELSE IF fault # "none" THEN Thrown(repo)
    ELSE LET flags ==
                 SetProp(SetProp(SetProp(SetProp(repo,
                     "has_code_of_conduct", web.community),
                     "has_contributing", web.community),
                     "has_issue_template", web.community),
                     "has_pull_request_template", web.community)
         IN  IF web.readme
             THEN Collected(SetProp(flags, "rawReadmeUrl", RawReadmeUrl(repo)))
             ELSE Collected(SetProp(flags, "readme_size", 0))

getCommunityProfileMetrics(repo, web, fault) ==
    IF hasOwnProperty(repo, "has_code_of_conduct") THEN Skipped(repo)
    ELSE IF fault # "none" THEN Thrown(repo)
    ELSE LET flags ==
                 SetProp(SetProp(SetProp(SetProp(repo,
                     "has_code_of_conduct", web.community),
                     "has_contributing", web.community),
                     "has_issue_template", web.community),
                     "has_pull_request_template", web.community)
         IN  IF web.readme
             THEN Collected(SetProp(flags, "rawReadmeUrl", RawReadmeUrl(repo)))
             ELSE Collected(SetProp(flags, "readme_size", 0))

\* if (repo.readme_size) continue: a size of 0 is collected again
getReadmeLengths_truthySkip(repo, web, fault) ==
    IF hasOwnProperty(repo, "readme_size") /\ repo["readme_size"] # 0 THEN Skipped(repo)
    ELSE IF ~hasOwnProperty(repo, "rawReadmeUrl")
         THEN [repo |-> SetProp(repo, "readme_size", 0), threw |-> FALSE, requested |-> FALSE]
    ELSE LET response == Fetched(200, fault)
         IN  IF response.state = "failed" \/ response.status # 200
             THEN Collected(SetProp(repo, "readme_size", 0))
             ELSE Collected(SetProp(repo, "readme_size", web.contentLength))

\* lines 122-128 without the try block: the error of line 124 leaves the loop
getReadmeLengths_throws(repo, web, fault) ==
    IF hasOwnProperty(repo, "readme_size") THEN Skipped(repo)
    ELSE IF ~hasOwnProperty(repo, "rawReadmeUrl") THEN Thrown(repo)
    ELSE LET response == Fetched(200, fault)
         IN  IF response.state = "failed" \/ response.status # 200
             THEN Thrown(repo)
             ELSE Collected(SetProp(repo, "readme_size", web.contentLength))

getReadmeLengths(repo, web, fault) ==
    IF hasOwnProperty(repo, "readme_size") THEN Skipped(repo)
    ELSE IF ~hasOwnProperty(repo, "rawReadmeUrl")
         \* fetch(undefined) rejects without a request; caught
         THEN [repo |-> SetProp(repo, "readme_size", 0), threw |-> FALSE, requested |-> FALSE]
    ELSE LET response == Fetched(200, fault)
         IN  IF response.state = "failed" \/ response.status # 200
             THEN Collected(SetProp(repo, "readme_size", 0))
             ELSE Collected(SetProp(repo, "readme_size", web.contentLength))

\* line 158 left out: the languages are asked for again
getLanguages_again(repo, web, fault) ==
    IF fault # "none" THEN Thrown(repo)
    ELSE Collected(SetProp(repo, "languages", web.languages))

getLanguages(repo, web, fault) ==
    IF hasOwnProperty(repo, "languages") THEN Skipped(repo)
    ELSE IF fault # "none" THEN Thrown(repo)
    ELSE Collected(SetProp(repo, "languages", web.languages))

\* the catch block of lines 185-190 with a default: any other error is false
getDeployments_errorIsFalse(repo, web, fault) ==
    IF hasOwnProperty(repo, "has_deployments") THEN Skipped(repo)
    ELSE IF hasOwnProperty(repo, "environments") /\ Len(repo["environments"]) = 0
         THEN [repo |-> SetProp(repo, "has_deployments", FALSE), threw |-> FALSE,
               requested |-> FALSE]
    ELSE IF fault = "http502" THEN Collected(SetProp(repo, "has_deployments", TRUE))
    ELSE IF fault # "none" THEN Collected(SetProp(repo, "has_deployments", FALSE))
    ELSE Collected(SetProp(repo, "has_deployments", web.deployments > 0))

\* lines 173-176 left out: the listing is asked for whatever the environments
getDeployments_noShortCircuit(repo, web, fault) ==
    IF hasOwnProperty(repo, "has_deployments") THEN Skipped(repo)
    ELSE IF fault = "http502" THEN Collected(SetProp(repo, "has_deployments", TRUE))
    ELSE IF fault # "none" THEN Collected(repo)
    ELSE Collected(SetProp(repo, "has_deployments", web.deployments > 0))

\* line 187 without its condition: every error means deployments
getDeployments_anyError(repo, web, fault) ==
    IF hasOwnProperty(repo, "has_deployments") THEN Skipped(repo)
    ELSE IF hasOwnProperty(repo, "environments") /\ Len(repo["environments"]) = 0
         THEN [repo |-> SetProp(repo, "has_deployments", FALSE), threw |-> FALSE,
               requested |-> FALSE]
    ELSE IF fault # "none" THEN Collected(SetProp(repo, "has_deployments", TRUE))
    ELSE Collected(SetProp(repo, "has_deployments", web.deployments > 0))

getDeployments(repo, web, fault) ==
    IF hasOwnProperty(repo, "has_deployments") THEN Skipped(repo)
    ELSE IF hasOwnProperty(repo, "environments") /\ Len(repo["environments"]) = 0
         THEN [repo |-> SetProp(repo, "has_deployments", FALSE), threw |-> FALSE,
               requested |-> FALSE]
    ELSE IF fault = "http502" THEN Collected(SetProp(repo, "has_deployments", TRUE))
    ELSE IF fault # "none" THEN Collected(repo)
    ELSE Collected(SetProp(repo, "has_deployments", web.deployments > 0))

\* lines 199-211 without the try block: the error of the listing leaves the loop
getEnvironments_throws(repo, web, fault) ==
    IF hasOwnProperty(repo, "environments") THEN Skipped(repo)
    ELSE IF fault # "none" THEN Thrown(repo)
    ELSE Collected(SetProp(repo, "environments", web.environments))

getEnvironments(repo, web, fault) ==
    IF hasOwnProperty(repo, "environments") THEN Skipped(repo)
    ELSE IF fault # "none" THEN Collected(SetProp(repo, "environments", <<>>))
    ELSE Collected(SetProp(repo, "environments", web.environments))

getReleases(repo, web, fault) ==
    IF hasOwnProperty(repo, "has_releases") THEN Skipped(repo)
    ELSE LET response == Fetched(200, fault)
         IN  IF response.state = "failed" \/ response.status # 200 THEN Thrown(repo)
             ELSE Collected(SetProp(repo, "has_releases", web.release))

getIssueLabelsCount(repo, web, fault) ==
    IF hasOwnProperty(repo, "labels_count") THEN Skipped(repo)
    ELSE LET response == Fetched(200, fault)
         IN  IF response.state = "failed" \/ response.status # 200 THEN Thrown(repo)
             ELSE Collected(SetProp(repo, "labels_count", web.labels))

\* line 275 widened to every status other than 200: the count is 0
getMilestones_defaultsToZero(repo, web, fault) ==
    IF hasOwnProperty(repo, "milestones_count") THEN Skipped(repo)
    ELSE LET response == Fetched(web.milestones, fault)
         IN  IF response.state = "failed" THEN Thrown(repo)
             ELSE IF response.status # 200
                  THEN Collected(SetProp(repo, "milestones_count", 0))
             ELSE Collected(SetProp(repo, "milestones_count", web.open + web.closed))

getMilestones(repo, web, fault) ==
    IF hasOwnProperty(repo, "milestones_count") THEN Skipped(repo)
    ELSE LET response == Fetched(web.milestones, fault)
         IN  IF response.state = "failed" THEN Thrown(repo)
             ELSE IF response.status = 404
                  THEN Collected(SetProp(repo, "milestones_count", 0))
             ELSE IF response.status # 200 THEN Thrown(repo)
             ELSE Collected(SetProp(repo, "milestones_count", web.open + web.closed))

\* the eight presence collectors: repo.<key> = await doesAnyFileExist(urls)
PresenceCollector(repo, key, n, web, fault) ==
    IF hasOwnProperty(repo, key) THEN Skipped(repo)
    ELSE LET found == Probed(n, web.present, fault)
         IN  IF found = "error" THEN Thrown(repo)
             ELSE Collected(SetProp(repo, key, found = "true"))

getSecurityFiles(repo, web, fault) == PresenceCollector(repo, "has_security_file", 5, web, fault)
getSupportFiles(repo, web, fault) == PresenceCollector(repo, "has_support_file", 5, web, fault)
getFundingFiles(repo, web, fault) == PresenceCollector(repo, "has_funding_file", 1, web, fault)
getCodeowners(repo, web, fault) == PresenceCollector(repo, "has_codeowners", 3, web, fault)
getChangelog(repo, web, fault) == PresenceCollector(repo, "has_changelog", 1, web, fault)
getCodespaces(repo, web, fault) == PresenceCollector(repo, "has_codespaces", 2, web, fault)
getDiscussions(repo, web, fault) == PresenceCollector(repo, "has_discussions", 1, web, fault)
getDependabot(repo, web, fault) == PresenceCollector(repo, "uses_dependabot", 2, web, fault)

\* the sequence with getReadmeLengths called before getCommunityProfileMetrics
Collectors_readmeFirst ==
    << "getContributorCounts",
       "getWorkflows", "getReadmeLengths", "getCommunityProfileMetrics",
       "getLanguages", "getSupportFiles", "getEnvironments", "getFundingFiles",
       "getDeployments", "getReleases", "getIssueLabelsCount", "getMilestones",
       "getSecurityFiles", "getCodeowners", "getChangelog", "getCodespaces",
       "getDiscussions", "getDependabot" >>

\* doBatch's getContributorCounts (line 768) followed by getDetails' fixed
\* sequence (lines 693-709)
Collectors ==
    << "getContributorCounts",
       "getWorkflows", "getCommunityProfileMetrics", "getReadmeLengths",
       "getLanguages", "getSupportFiles", "getEnvironments", "getFundingFiles",
       "getDeployments", "getReleases", "getIssueLabelsCount", "getMilestones",
       "getSecurityFiles", "getCodeowners", "getChangelog", "getCodespaces",
       "getDiscussions", "getDependabot" >>

RunCollector(name, repo, web, fault) ==
    CASE name = "getContributorCounts" -> getContributorCounts(repo, web, fault)
      [] name = "getWorkflows" -> getWorkflows(repo, web, fault)
      [] name = "getCommunityProfileMetrics" -> getCommunityProfileMetrics(repo, web, fault)
      [] name = "getReadmeLengths" -> getReadmeLengths(repo, web, fault)
      [] name = "getLanguages" -> getLanguages(repo, web, fault)
      [] name = "getSupportFiles" -> getSupportFiles(repo, web, fault)
      [] name = "getEnvironments" -> getEnvironments(repo, web, fault)
      [] name = "getFundingFiles" -> getFundingFiles(repo, web, fault)
      [] name = "getDeployments" -> getDeployments(repo, web, fault)
      [] name = "getReleases" -> getReleases(repo, web, fault)
      [] name = "getIssueLabelsCount" -> getIssueLabelsCount(repo, web, fault)
      [] name = "getMilestones" -> getMilestones(repo, web, fault)
      [] name = "getSecurityFiles" -> getSecurityFiles(repo, web, fault)
      [] name = "getCodeowners" -> getCodeowners(repo, web, fault)
      [] name = "getChangelog" -> getChangelog(repo, web, fault)
      [] name = "getCodespaces" -> getCodespaces(repo, web, fault)
      [] name = "getDiscussions" -> getDiscussions(repo, web, fault)
      [] OTHER -> getDependabot(repo, web, fault)

\* the property whose presence makes each collector skip a record
Marker(name) ==
    CASE name = "getContributorCounts" -> "contributor_count"
      [] name = "getWorkflows" -> "workflows_count"
      [] name = "getCommunityProfileMetrics" -> "has_code_of_conduct"
      [] name = "getReadmeLengths" -> "readme_size"
      [] name = "getLanguages" -> "languages"
      [] name = "getSupportFiles" -> "has_support_file"
      [] name = "getEnvironments" -> "environments"
      [] name = "getFundingFiles" -> "has_funding_file"
      [] name = "getDeployments" -> "has_deployments"
      [] name = "getReleases" -> "has_releases"
      [] name = "getIssueLabelsCount" -> "labels_count"
      [] name = "getMilestones" -> "milestones_count"
      [] name = "getSecurityFiles" -> "has_security_file"
      [] name = "getCodeowners" -> "has_codeowners"
      [] name = "getChangelog" -> "has_changelog"
      [] name = "getCodespaces" -> "has_codespaces"
      [] name = "getDiscussions" -> "has_discussions"
      [] OTHER -> "uses_dependabot"

(***************************************************************************)
(* The checkpoint file: JSON.stringify(repos, null, 2) and JSON.parse.     *)
(* file.data is the parsed content of the text on disk.                    *)
(***************************************************************************)
\* JSON.stringify writes NaN as null; every other value modelled here is
\* written as it is
StringifyRepo(repo) ==
    [k \in DOMAIN repo |->
        IF k = "contributor_count" /\ repo[k] = NaN THEN Null ELSE repo[k]]

Stringify(list) == [j \in 1..Len(list) |-> StringifyRepo(list[j])]

\* fs.promises.readFile + JSON.parse, [] when that throws
ReadCheckpoint == IF file.state = "ok" THEN file.data ELSE <<>>

\* lines 746-752 with the read or the parse failing although the file is
\* there: the catch block leaves savedRepos = []
ReadFaults == IF faults < MaxFaults /\ ReadCheckpoint # <<>> THEN {TRUE, FALSE} ELSE {FALSE}

Written(list) == [state |-> "ok", data |-> Stringify(list)]

(***************************************************************************)
(* Spec: main, doBatch, cleanUpBatch, shutdown (src/index.js:729-829).     *)
(***************************************************************************)
PipelineIds == {<<"o1", "r1">>, <<"o1", "r2">>}

\* what the search of live batch n can return: any page over the
\* repositories, the same one twice included; the snapshot differs from
\* search to search
Pages(n) ==
    SeqsUpTo({SearchResult(id[1], id[2], 10 + n) : id \in PipelineIds}, MaxPerPage)

Init ==
    /\ remote \in [PipelineIds -> Profiles]
    /\ file = [state |-> "missing", data |-> <<>>]
    /\ arff = [written |-> FALSE, rows |-> <<>>]
    /\ pc = "start"
    /\ phase = "initial"
    /\ live = FALSE
    /\ iteration = 0
    /\ handlers = 0
    /\ col = 0
    /\ idx = 0
    /\ requested = FALSE
    /\ faults = 0
    /\ failed = FALSE
    /\ filtered = FALSE
    /\ numFilteredOut = 0
    /\ MergeIdle
    /\ ProbeIdle
    /\ ThrottleIdle
    /\ ScheduleIdle

\* doBatch(query, sort) up to its first await, the readFile of line 748
EnterBatch(isLive) ==
    /\ pc' = "load"
    /\ live' = isLive
    /\ col' = 0
    /\ idx' = 0
    /\ savedRepos' = <<>>
    /\ newRepos' = <<>>
    /\ requested' = FALSE
    \* failed and filtered describe the batch before until line 748 returns
    /\ UNCHANGED <<failed, filtered, numFilteredOut>>

\* the loop of line 806 with i <= 100 for its test
NextIteration_oneMore ==
    IF iteration <= MaxLive
    THEN /\ EnterBatch(TRUE)
         /\ phase' = "loop"
         /\ iteration' = iteration + 1
         /\ handlers' = LoopHandlers
    ELSE /\ pc' = "finished"
         /\ UNCHANGED <<phase, live, iteration, handlers, col, idx, requested, failed,
                        filtered, numFilteredOut, savedRepos, newRepos>>

\* the next iteration of the for-loop of line 806, or the end of main
NextIteration ==
    IF iteration < MaxLive
    THEN /\ EnterBatch(TRUE)
         /\ phase' = "loop"
         /\ iteration' = iteration + 1
         /\ handlers' = LoopHandlers
    ELSE /\ pc' = "finished"
         /\ UNCHANGED <<phase, live, iteration, handlers, col, idx, requested, failed,
                        filtered, numFilteredOut, savedRepos, newRepos>>

\* shutdown() (lines 729-737): the file after it
shutdown == IF repos.null THEN file ELSE Written(repos.list)

\* process.exit(0): what the process held in memory is gone, the files stay
Exit ==
    /\ pc' = "exited"
    /\ repos' = NullRepos
    /\ savedRepos' = <<>>
    /\ newRepos' = <<>>
    /\ phase' = "none"
    /\ live' = FALSE
    /\ iteration' = 0
    /\ handlers' = 0
    /\ col' = 0
    /\ idx' = 0
    /\ requested' = FALSE
    /\ failed' = FALSE
    /\ filtered' = FALSE
    /\ numFilteredOut' = 0

\* doBatch's promise settles and main runs on to its next await
Settle(ok) ==
    IF ok
    THEN IF phase = "loop" /\ live
         \* Promise.all still waits for sleep(1000 * 60 * 3)
         THEN /\ pc' = "idle"
              /\ col' = 0
              /\ idx' = 0
              /\ savedRepos' = <<>>
              /\ newRepos' = <<>>
              /\ UNCHANGED <<phase, live, iteration, handlers, requested, failed, filtered,
                             numFilteredOut>>
         ELSE NextIteration
    ELSE IF handlers > 0
         \* cleanUpBatch: console.error, then sleep(1000 * 60 * minutesToWait)
         THEN /\ pc' = "cooldown"
              /\ handlers' = handlers - 1
              /\ col' = 0
              /\ idx' = 0
              /\ savedRepos' = <<>>
              /\ newRepos' = <<>>
              /\ UNCHANGED <<phase, live, iteration, requested, filtered, numFilteredOut>>
              /\ failed' = TRUE
         \* main() rejects: the unhandled rejection is an uncaughtException
         \* and shutdown() writes the checkpoint line 780 has just written
         ELSE Exit

\* line 795 with the arguments of line 809: the first batch searches
StartMain_searches ==
    /\ pc = "start"
    /\ EnterBatch(TRUE)
    /\ handlers' = InitialHandlers
    /\ UNCHANGED <<repos, remote, file, arff, phase, iteration, faults>>
    /\ UNCHANGED <<mergeVars, probeVars, throttleVars, scheduleVars>>

\* main() is called (line 829): await doBatch() with nine handlers behind it
StartMain ==
    /\ pc = "start"
    /\ EnterBatch(FALSE)
    /\ handlers' = InitialHandlers
    /\ UNCHANGED <<repos, remote, file, arff, phase, iteration, faults>>
    /\ UNCHANGED <<mergeVars, probeVars, throttleVars, scheduleVars>>

\* lines 746-755 of a live batch: the checkpoint is read, the search is awaited
LoadLive ==
    /\ pc = "load"
    /\ live
    /\ \E unread \in ReadFaults :
          /\ savedRepos' = (IF unread THEN <<>> ELSE ReadCheckpoint)
          /\ faults' = (IF unread THEN faults + 1 ELSE faults)
    /\ pc' = "discover"
    /\ requested' = FALSE
    /\ failed' = FALSE
    /\ filtered' = FALSE
    /\ numFilteredOut' = 0
    /\ UNCHANGED <<repos, newRepos, remote, file, arff, phase, live, iteration, handlers,
                   col, idx>>
    /\ UNCHANGED <<mergeVars, probeVars, throttleVars, scheduleVars>>

\* lines 746-768 of a recovery-only batch: read, merge, enter the try block
LoadRecovery ==
    /\ pc = "load"
    /\ ~live
    /\ \E unread \in ReadFaults :
          /\ savedRepos' = (IF unread THEN <<>> ELSE ReadCheckpoint)
          /\ faults' = (IF unread THEN faults + 1 ELSE faults)
    /\ newRepos' = <<>>
    /\ repos' = ReposOf(removeDuplicateRepos(savedRepos' \o <<>>))
    /\ pc' = "collect"
    /\ col' = 1
    /\ idx' = 1
    /\ requested' = FALSE
    /\ failed' = FALSE
    /\ filtered' = FALSE
    /\ numFilteredOut' = 0
    /\ UNCHANGED <<remote, file, arff, phase, live, iteration, handlers>>
    /\ UNCHANGED <<mergeVars, probeVars, throttleVars, scheduleVars>>

\* line 764 with the spread turned round: [...newRepos, ...savedRepos]
Discover_newFirst ==
    /\ pc = "discover"
    /\ \E page \in Pages(iteration) :
          /\ newRepos' = page
          /\ repos' = ReposOf(removeDuplicateRepos(page \o savedRepos))
    /\ pc' = "collect"
    /\ col' = 1
    /\ idx' = 1
    /\ UNCHANGED <<savedRepos, remote, file, arff, phase, live, iteration, handlers, requested,
                   faults, failed, filtered, numFilteredOut>>
    /\ UNCHANGED <<mergeVars, probeVars, throttleVars, scheduleVars>>

\* line 759 returns a page; line 764 merges it; the try block is entered
Discover ==
    /\ pc = "discover"
    /\ \E page \in Pages(iteration) :
          /\ newRepos' = page
          /\ repos' = ReposOf(removeDuplicateRepos(savedRepos \o page))
    /\ pc' = "collect"
    /\ col' = 1
    /\ idx' = 1
    /\ UNCHANGED <<savedRepos, remote, file, arff, phase, live, iteration, handlers, requested,
                   faults, failed, filtered, numFilteredOut>>
    /\ UNCHANGED <<mergeVars, probeVars, throttleVars, scheduleVars>>

\* line 759 throws: doBatch rejects before its try block, so without line 780
DiscoverFails ==
    /\ pc = "discover"
    /\ faults < MaxFaults
    /\ faults' = faults + 1
    /\ Settle(FALSE)
    /\ repos' = (IF handlers > 0 THEN repos ELSE NullRepos)
    /\ file' = (IF handlers > 0 THEN file ELSE shutdown)
    /\ UNCHANGED <<remote, arff>>
    /\ UNCHANGED <<mergeVars, probeVars, throttleVars, scheduleVars>>

\* whether the collector's loop is waiting for a request of the record at idx
Awaiting ==
    /\ pc = "collect"
    /\ idx <= Len(repos.list)
    /\ RunCollector(Collectors[col], repos.list[idx],
                    remote[Identity(repos.list[idx])], "none").requested

\* the loop as a forEach whose errors are kept for later: the records after
\* the one that threw get their turn as well
CollectRepo_goesOn ==
    /\ pc = "collect"
    /\ idx <= Len(repos.list)
    /\ \E fault \in {"none"} \cup (IF faults < MaxFaults THEN FaultKinds ELSE {}) :
          LET name == Collectors[col]
              repo == repos.list[idx]
              r == RunCollector(name, repo, remote[Identity(repo)], fault)
          IN  /\ fault # "none" => r.requested
              /\ repos' = [repos EXCEPT !.list[idx] = r.repo]
              /\ requested' = r.requested
              /\ faults' = IF fault = "none" THEN faults ELSE faults + 1
              /\ failed' = (failed \/ r.threw)
              /\ idx' = idx + 1
              /\ UNCHANGED <<pc, col>>
    /\ UNCHANGED <<savedRepos, newRepos, remote, file, arff, phase, live, iteration,
                   handlers, filtered, numFilteredOut>>
    /\ UNCHANGED <<mergeVars, probeVars, throttleVars, scheduleVars>>

\* one turn of the running collector's for-loop
CollectRepo ==
    /\ pc = "collect"
    /\ idx <= Len(repos.list)
    /\ \E fault \in {"none"} \cup (IF faults < MaxFaults THEN FaultKinds ELSE {}) :
          LET name == Collectors[col]
              repo == repos.list[idx]
              r == RunCollector(name, repo, remote[Identity(repo)], fault)
          IN  /\ fault # "none" => r.requested
              /\ repos' = [repos EXCEPT !.list[idx] = r.repo]
              /\ requested' = r.requested
              /\ faults' = IF fault = "none" THEN faults ELSE faults + 1
              /\ IF r.threw
                 THEN /\ pc' = "finally"
                      /\ failed' = TRUE
                      /\ UNCHANGED <<col, idx>>
                 ELSE /\ idx' = idx + 1
                      /\ UNCHANGED <<pc, failed, col>>
    /\ UNCHANGED <<savedRepos, newRepos, remote, file, arff, phase, live, iteration,
                   handlers, filtered, numFilteredOut>>
    /\ UNCHANGED <<mergeVars, probeVars, throttleVars, scheduleVars>>

\* the filter left out
KeepsAll(repo) == TRUE

\* repos.filter(repo => repo.contributor_count != null)
KeepsDefined(repo) ==
    hasOwnProperty(repo, "contributor_count") /\ repo["contributor_count"] # Null

\* repos.filter(repo => repo.contributor_count)

Keeps(repo) ==
    hasOwnProperty(repo, "contributor_count") /\ Truthy(repo["contributor_count"])

\* getContributorCounts returned and getDetails starts, lines 769-772 left out
FilterInvalid_skipped ==
    /\ pc = "collect"
    /\ col = 1
    /\ idx > Len(repos.list)
    /\ savedRepos' = <<>>
    /\ newRepos' = <<>>
    /\ col' = 2
    /\ idx' = 1
    /\ UNCHANGED <<repos, remote, file, arff, pc, phase, live, iteration, handlers,
                   requested, faults, failed, filtered, numFilteredOut>>
    /\ UNCHANGED <<mergeVars, probeVars, throttleVars, scheduleVars>>

\* getContributorCounts returned: line 770 filters, getDetails starts
FilterInvalid ==
    /\ pc = "collect"
    /\ col = 1
    /\ idx > Len(repos.list)
    /\ repos' = ReposOf(SelectSeq(repos.list, Keeps))
    /\ filtered' = TRUE
    /\ numFilteredOut' = Len(repos.list) - Len(SelectSeq(repos.list, Keeps))
    \* savedRepos and newRepos are not read after line 765
    /\ savedRepos' = <<>>
    /\ newRepos' = <<>>
    /\ col' = 2
    /\ idx' = 1
    /\ UNCHANGED <<remote, file, arff, pc, phase, live, iteration,
                   handlers, requested, faults, failed>>
    /\ UNCHANGED <<mergeVars, probeVars, throttleVars, scheduleVars>>

\* a collector of getDetails returned: the next one starts
NextCollector ==
    /\ pc = "collect"
    /\ col > 1
    /\ col < Len(Collectors)
    /\ idx > Len(repos.list)
    /\ col' = col + 1
    /\ idx' = 1
    /\ UNCHANGED <<repos, savedRepos, newRepos, remote, file, arff, pc, phase, live,
                   iteration, handlers, requested, faults, failed, filtered, numFilteredOut>>
    /\ UNCHANGED <<mergeVars, probeVars, throttleVars, scheduleVars>>

\* line 774 moved behind the finally block: the checkpoint is written first
DetailsDone_persistFirst ==
    /\ pc = "collect"
    /\ col = Len(Collectors)
    /\ idx > Len(repos.list)
    /\ pc' = "finally"
    /\ UNCHANGED <<repos, savedRepos, newRepos, remote, file, arff, phase, live,
                   iteration, handlers, col, idx, requested, faults, failed, filtered,
                   numFilteredOut>>
    /\ UNCHANGED <<mergeVars, probeVars, throttleVars, scheduleVars>>

\* getDetails returned: writeToArffFile is awaited
DetailsDone ==
    /\ pc = "collect"
    /\ col = Len(Collectors)
    /\ idx > Len(repos.list)
    /\ pc' = "arff"
    /\ UNCHANGED <<repos, savedRepos, newRepos, remote, file, arff, phase, live,
                   iteration, handlers, col, idx, requested, faults, failed, filtered,
                   numFilteredOut>>
    /\ UNCHANGED <<mergeVars, probeVars, throttleVars, scheduleVars>>

Finished_atLeast(list) == Len(list) >= FinishedThreshold

\* line 775: repos.length > 10000
Finished(list) == Len(list) > FinishedThreshold

\* lines 774-778: the dataset is written; past the threshold shutdown() ends
\* the process, otherwise the finally block follows
WriteArff ==
    /\ pc = "arff"
    /\ arff' = [written |-> TRUE, rows |-> repos.list]
    /\ IF Finished(repos.list)
       THEN /\ file' = shutdown
            /\ Exit
       ELSE /\ pc' = "finally"
            /\ UNCHANGED <<file, repos, savedRepos, newRepos, phase, live, iteration,
                           handlers, col, idx, requested, failed, filtered, numFilteredOut>>
    /\ UNCHANGED <<remote, faults>>
    /\ UNCHANGED <<mergeVars, probeVars, throttleVars, scheduleVars>>

\* writeToArffFile throws (the file cannot be written)
WriteArffFails ==
    /\ pc = "arff"
    /\ faults < MaxFaults
    /\ faults' = faults + 1
    /\ failed' = TRUE
    /\ pc' = "finally"
    /\ UNCHANGED <<repos, savedRepos, newRepos, remote, file, arff, phase, live, iteration,
                   handlers, col, idx, requested, filtered, numFilteredOut>>
    /\ UNCHANGED <<mergeVars, probeVars, throttleVars, scheduleVars>>

\* the file while fs.promises.writeFile or fs.writeFileSync is at work on it:
\* opened with 'w', so cut to nothing, and not yet whole
Partial == [state |-> "partial", data |-> <<>>]

\* lines 779-780: writeRawDataToJsonFile is called and awaited
Finally ==
    /\ pc = "finally"
    /\ pc' = "writing"
    /\ file' = (IF repos.null THEN file ELSE Partial)
    /\ UNCHANGED <<repos, savedRepos, newRepos, remote, arff, phase, live, iteration,
                   handlers, col, idx, requested, faults, failed, filtered, numFilteredOut>>
    /\ UNCHANGED <<mergeVars, probeVars, throttleVars, scheduleVars>>

\* line 780 returns: the checkpoint is written, then doBatch settles
Persisted ==
    /\ pc = "writing"
    /\ file' = (IF repos.null THEN file ELSE Written(repos.list))
    /\ Settle(~failed)
    /\ repos' = (IF failed /\ handlers = 0 THEN NullRepos ELSE repos)
    /\ UNCHANGED <<remote, arff, faults>>
    /\ UNCHANGED <<mergeVars, probeVars, throttleVars, scheduleVars>>

\* cleanUpBatch's sleep is over: doBatch() without a query
Cooldown ==
    /\ pc = "cooldown"
    /\ EnterBatch(FALSE)
    /\ UNCHANGED <<repos, remote, file, arff, phase, iteration, handlers, faults>>
    /\ UNCHANGED <<mergeVars, probeVars, throttleVars, scheduleVars>>

\* the sleep of line 810 is over
Idle ==
    /\ pc = "idle"
    /\ NextIteration
    /\ UNCHANGED <<repos, remote, file, arff, faults>>
    /\ UNCHANGED <<mergeVars, probeVars, throttleVars, scheduleVars>>

\* SIGINT, SIGUSR1 or SIGUSR2 while the process waits in an await
Interrupt ==
    /\ \/ pc \in {"load", "discover", "arff", "writing", "cooldown", "idle"}
       \/ Awaiting
    \* while line 780 is writing, shutdown's writeFileSync and the write in
    \* flight work on the same file without any order between them, and
    \* process.exit ends the one in flight wherever it is
    /\ file' \in (IF pc = "writing" /\ ~repos.null THEN {shutdown, Partial} ELSE {shutdown})
    /\ Exit
    /\ UNCHANGED <<remote, arff, faults>>
    /\ UNCHANGED <<mergeVars, probeVars, throttleVars, scheduleVars>>

\* the process is killed or the machine stops: no handler runs
Crash ==
    /\ pc \in {"load", "discover", "collect", "arff", "finally", "writing", "cooldown", "idle"}
    /\ Exit
    /\ UNCHANGED <<remote, file, arff, faults>>
    /\ UNCHANGED <<mergeVars, probeVars, throttleVars, scheduleVars>>

Next ==
    \/ StartMain
    \/ LoadLive
    \/ LoadRecovery
    \/ Discover
    \/ DiscoverFails
    \/ CollectRepo
    \/ FilterInvalid
    \/ NextCollector
    \/ DetailsDone
    \/ WriteArff
    \/ WriteArffFails
    \/ Finally
    \/ Persisted
    \/ Cooldown
    \/ Idle
    \/ Interrupt
    \/ Crash

Spec == Init /\ [][Next]_vars

(***************************************************************************)
(* The skip of a record a collector has already handled.                   *)
(***************************************************************************)
Answers == {"none"} \cup FaultKinds

\* a turn of the running collector's loop for the record at idx, answered
\* as usual (every state a turn starts in has one)
UsualTurn ==
    /\ pc = "collect"
    /\ idx <= Len(repos.list)
    /\ pc' # "exited"
    /\ faults' = faults

\* whatever the platform would answer, the collector returns the record as
\* it is and asks nothing
SkippedWhenMarked(name, repo) ==
    hasOwnProperty(repo, Marker(name)) =>
        \A web \in Profiles : \A fault \in Answers :
            RunCollector(name, repo, web, fault) = Skipped(repo)

\* a collector that returned, run again to the same answer, leaves the
\* record as its first run left it
SecondRunChangesNothing(name, repo) ==
    \A fault \in Answers :
        LET web == remote[Identity(repo)]
            first == RunCollector(name, repo, web, fault)
        IN  ~first.threw => RunCollector(name, first.repo, web, fault).repo = first.repo

Kept(before, after) ==
    \A k \in DOMAIN before : k \in DOMAIN after /\ after[k] = before[k]

\* C2: no collector changes the value of a key that is present on a record,
\* whether the repository has every facility, none, or what it has; a turn of a collector's loop keeps every
\* present key of every record, and from batch to batch (failed and recovery
\* batches included) a record that stays in the list keeps what it had, as
\* the checkpoint that was read back writes it.  This covers readme_size and rawReadmeUrl, which
\* getCommunityProfileMetrics writes behind has_code_of_conduct alone.
C2_PresentKeysKeepTheirValue ==
    [][ /\ UsualTurn =>
              \A web \in {Healthy, Bare, remote[Identity(repos.list[idx])]} :
                  \A fault \in Answers :
                      Kept(repos.list[idx],
                           RunCollector(Collectors[col], repos.list[idx], web, fault).repo)
        /\ (pc = "collect" /\ pc' \in {"collect", "finally"} /\ col' = col) =>
              /\ Len(repos'.list) = Len(repos.list)
              /\ \A j \in 1..Len(repos.list) : Kept(repos.list[j], repos'.list[j])
        /\ ( /\ repos' # repos /\ ~repos'.null /\ col' # col
             /\ pc = "load" => savedRepos' = ReadCheckpoint
             /\ pc = "discover" => savedRepos = ReadCheckpoint ) =>
              \A j \in 1..Len(repos.list) : \A k \in 1..Len(repos'.list) :
                  SameRepo(repos.list[j], repos'.list[k])
                      => Kept(StringifyRepo(repos.list[j]), StringifyRepo(repos'.list[k])) ]_vars

\* getCommunityProfileMetrics has just passed over a record that has its
\* flags, its rawReadmeUrl and a readme_size getReadmeLengths measured
C2_Witness ==
    /\ pc = "collect"
    /\ Collectors[col] = "getCommunityProfileMetrics"
    /\ idx > 1
    /\ requested = FALSE
    /\ hasOwnProperty(repos.list[idx - 1], "has_code_of_conduct")
    /\ hasOwnProperty(repos.list[idx - 1], "rawReadmeUrl")
    /\ hasOwnProperty(repos.list[idx - 1], "readme_size")
    /\ repos.list[idx - 1]["readme_size"] = Healthy.contentLength

(***************************************************************************)
(* One record per repository.                                              *)
(***************************************************************************)
\* C3: after the merge of every batch no two records of repos have the same
\* owner and repo, and neither have two records of the checkpoint on disk or
\* two rows of the dataset, whatever the checkpoint and the page were.
C3_OneRecordPerIdentity ==
    /\ NoDuplicates(repos.list)
    /\ NoDuplicates(file.data)
    /\ NoDuplicates(arff.rows)

\* a page that names one repository twice, which the checkpoint has already
C3_Witness ==
    /\ pc = "collect"
    /\ file.state = "ok"
    /\ Len(savedRepos) > 0
    /\ Len(newRepos) = 2
    /\ SameRepo(newRepos[1], newRepos[2])
    /\ \E j \in 1..Len(savedRepos) : SameRepo(savedRepos[j], newRepos[1])
    /\ Len(repos.list) = Len(savedRepos)

(***************************************************************************)
(* The invalid-record filter.                                              *)
(***************************************************************************)
\* the collector yielded a count for the record
HasCount(repo) ==
    hasOwnProperty(repo, "contributor_count") /\ repo["contributor_count"].t = "number"

AllHaveCount(list) == \A j \in 1..Len(list) : HasCount(list[j])

\* C5: once getContributorCounts has returned, the records without a count
\* are gone: every record the later collectors and writeToArffFile get has
\* one, every row of the dataset has one, and so has every record of a
\* checkpoint written from then on in the batch.
C5_InvalidRecordsAreRemoved ==
    [][ /\ (pc = "collect" /\ col >= 2) => (filtered /\ AllHaveCount(repos.list))
        /\ pc = "arff" => (filtered /\ AllHaveCount(repos.list))
        /\ AllHaveCount(arff.rows)
        /\ (filtered /\ pc \in {"load", "idle", "cooldown", "finished"})
              => AllHaveCount(file.data)
        /\ (filtered /\ file' # file) => AllHaveCount(file'.data) ]_vars

\* a live batch is over: of two repositories the one whose counter reads
\* '1,234' is neither in the dataset nor in the checkpoint
C5_Witness ==
    /\ pc = "idle"
    /\ filtered
    /\ numFilteredOut = 1
    /\ arff.written
    /\ Len(arff.rows) = 1
    /\ Len(file.data) = 1
    /\ \E id \in PipelineIds :
          /\ remote[id] = Garbled
          /\ id \notin IdentitiesOf(file.data)
          /\ id \notin IdentitiesOf(arff.rows)

\* the count is a number other than 0
NonZeroCount(repo) == HasCount(repo) /\ repo["contributor_count"].v # 0

\* C6 as claimed: line 770 keeps a record whose count is 0 and removes only
\* records whose count could not be determined (NaN, null).
C6_ZeroCountIsKept ==
    [][ (~filtered /\ filtered') =>
            \A j \in 1..Len(repos.list) :
                LET repo == repos.list[j]
                    kept == \E k \in 1..Len(repos'.list) : repos'.list[k] = repo
                IN  /\ repo["contributor_count"] = Num(0) => kept
                    /\ ~kept => repo["contributor_count"] \in {NaN, Null} ]_vars

\* C6 amended: line 770 keeps exactly the records whose count is a number
\* other than 0, in their order; a count of 0 is removed as NaN and null are.
C6_ZeroCountIsRemoved ==
    [][ (~filtered /\ filtered') =>
            /\ repos'.list = SelectSeq(repos.list, NonZeroCount)
            /\ numFilteredOut' = Len(repos.list) - Len(repos'.list) ]_vars

\* of two repositories the one whose counter is empty has just been removed
C6_Witness ==
    /\ pc = "collect"
    /\ col = 2
    /\ idx = 1
    /\ filtered
    /\ numFilteredOut = 1
    /\ Len(repos.list) = 1
    /\ \E id \in PipelineIds : remote[id] = Zero /\ id \notin IdentitiesOf(repos.list)

\* the positions of doBatch, from its first await to its last
BatchPcs == {"load", "discover", "collect", "arff", "finally", "writing"}

\* doBatch returns or throws into main in this step
Settles == pc \in BatchPcs /\ pc' \in {"load", "cooldown", "idle", "finished"}

\* C14 as claimed: every invocation of doBatch, whether it completes or fails
\* in any phase, discovery included, writes the current in-memory record set
\* to the checkpoint before it returns or propagates the error.
C14_EveryBatchWritesBeforeItSettles ==
    [][ Settles => pc = "writing" /\ file' = Written(repos.list) ]_vars

\* C16 as claimed: the checkpoint file is never left half-written: when the
\* process is killed or interrupted while line 780 is writing, the file on
\* disk is the complete old checkpoint or the complete new one.
C16_NeverHalfWritten ==
    pc = "exited" => file.state \in {"missing", "ok"}

\* C15 as claimed: an interrupt at any point of a batch makes the process
\* flush and exit with a checkpoint file that holds every attribute set on
\* the in-memory records before the interrupt.
C15_InterruptFlushesEverything ==
    [][ (Interrupt /\ pc \in BatchPcs /\ ~repos.null) => file' = Written(repos.list) ]_vars

\* what the checkpoint on disk holds of a record is in the list as well
StillHeld(saved, list) ==
    \E k \in 1..Len(list) :
        /\ SameRepo(saved, list[k])
        /\ Kept(saved, StringifyRepo(list[k]))

\* C17 as claimed: no error loses collected data: when a batch, a failed one
\* or one that could not read its checkpoint included, comes to write the
\* checkpoint, every attribute of every record of the checkpoint on disk is in
\* what it writes, with its value, unless line 770 removed records.
C17_NoErrorLosesData ==
    [][ (pc = "finally" /\ pc' = "writing" /\ file.state = "ok" /\ numFilteredOut = 0) =>
            \A j \in 1..Len(file.data) : StillHeld(file.data[j], repos.list) ]_vars

\* C18 as claimed: a batch that fails has persisted the in-memory records
\* when its error reaches cleanUpBatch, which logs it, waits the cooldown and
\* then runs a recovery-only batch; a recovery-only batch never searches and
\* works on the records of the checkpoint alone.
C18_PersistCooldownRecover ==
    [][ /\ (pc \in BatchPcs /\ pc' = "cooldown") =>
              pc = "writing" /\ file' = Written(repos.list)
        /\ (pc = "cooldown" /\ pc' # "exited") => pc' = "load" /\ ~live'
        /\ (pc = "load" /\ ~live /\ pc' # "exited") =>
              /\ pc' = "collect"
              /\ newRepos' = <<>>
              /\ IdentitiesOf(repos'.list) \subseteq IdentitiesOf(ReadCheckpoint) ]_vars

(***************************************************************************)
(* SpecRecovery: main and cleanUpBatch alone (src/index.js:784-829), with  *)
(* each call of doBatch taken as a whole: it resolves or it rejects.       *)
(***************************************************************************)
RecoveryInit ==
    /\ remote = [id \in PipelineIds |-> Healthy]
    /\ repos = NullRepos
    /\ savedRepos = <<>>
    /\ newRepos = <<>>
    /\ file = [state |-> "missing", data |-> <<>>]
    /\ arff = [written |-> FALSE, rows |-> <<>>]
    /\ pc = "start"
    /\ phase = "initial"
    /\ live = FALSE
    /\ iteration = 0
    /\ handlers = 0
    /\ col = 0
    /\ idx = 0
    /\ requested = FALSE
    /\ faults = 0
    /\ failed = FALSE
    /\ filtered = FALSE
    /\ numFilteredOut = 0
    /\ MergeIdle
    /\ ProbeIdle
    /\ ThrottleIdle
    /\ ScheduleIdle

\* the promise of doBatch(...) resolves
BatchResolves ==
    /\ pc = "load"
    /\ Settle(TRUE)
    /\ UNCHANGED <<repos, remote, file, arff, faults>>
    /\ UNCHANGED <<mergeVars, probeVars, throttleVars, scheduleVars>>

\* the promise of doBatch(...) rejects: the next .catch of the chain runs
\* cleanUpBatch, and when there is none left the rejection leaves main
BatchRejects ==
    /\ pc = "load"
    /\ Settle(FALSE)
    \* the rejections so far; main bounds them by its handlers
    /\ faults' = faults + 1
    /\ UNCHANGED <<repos, remote, file, arff>>
    /\ UNCHANGED <<mergeVars, probeVars, throttleVars, scheduleVars>>

RecoveryNext ==
    \/ StartMain
    \/ BatchResolves
    \/ BatchRejects
    \/ Cooldown
    \/ Idle

SpecRecovery == RecoveryInit /\ [][RecoveryNext]_vars

\* C19 as claimed: after a failed live batch at most LoopHandlers
\* recovery-only batches are attempted, and when the last of them has failed
\* too, main goes on to the next iteration of its loop.
C19_GivesUpAndMovesOn ==
    [][ /\ handlers' \in 0..LoopHandlers
        /\ (phase = "loop" /\ pc = "load" /\ ~live /\ handlers = 0) =>
              \/ pc' = "load" /\ live' /\ iteration' = iteration + 1
              \/ pc' = "finished" ]_vars

\* C20: a batch that has written a dataset of more than FinishedThreshold
\* records writes the checkpoint with these records and ends the process, and
\* an ended process takes no further step (no batch, search or collector
\* call); with FinishedThreshold records or fewer the batch goes on to its
\* finally block and the process lives on.
C20_StopsPastTheThreshold ==
    [][ /\ pc # "exited"
        /\ (pc = "arff" /\ arff' # arff) =>
              IF Len(repos.list) > FinishedThreshold
              THEN /\ pc' = "exited"
                   /\ file' = Written(repos.list)
                   /\ arff'.rows = repos.list
              ELSE /\ pc' = "finally"
                   /\ repos' = repos
                   /\ file' = file ]_vars

\* the process has ended on a dataset of more records than the threshold,
\* which the checkpoint holds as well
C20_Witness ==
    /\ pc = "exited"
    /\ arff.written
    /\ Len(arff.rows) > FinishedThreshold
    /\ file = Written(arff.rows)

\* a dataset of exactly FinishedThreshold records has been written and the
\* loop has gone on to a later batch
C20_WitnessAtThreshold ==
    /\ pc = "load"
    /\ iteration = 2
    /\ arff.written
    /\ Len(arff.rows) = FinishedThreshold

(***************************************************************************)
(* SpecSchedule: main, cleanUpBatch and the sequence of collectors with    *)
(* the time that passes (src/index.js:689-722, 767-768, 784-829).  Time is *)
(* counted in minutes; a batch takes any time, a sleep at least its own.   *)
(***************************************************************************)
\* sleep(1000 * 60 * 3) of line 810 and minutesToWait = 1 of line 784
InterBatchMinutes == 3
CooldownMinutes == 1

\* Promise.all([doBatch(...), sleep(...)]) of lines 808-811: rejected as soon
\* as the batch rejects, fulfilled when the batch has resolved and the sleep
\* is over
PromiseAll_race(batch, sleep) ==
    IF batch = "rejected" THEN "rejected"
    ELSE IF batch = "resolved" \/ sleep = "fired" THEN "fulfilled"
    ELSE "pending"

PromiseAll(batch, sleep) ==
    IF batch = "rejected" THEN "rejected"
    ELSE IF batch = "resolved" /\ sleep = "fired" THEN "fulfilled"
    ELSE "pending"

\* what starts when the collectors before Collectors[k] have returned: each
\* call of lines 768 and 693-709 is awaited before the next is made
Launch_all(k) == k..Len(Collectors)

Launch(k) == {k}

\* what SpecSchedule leaves as it is
unscheduled == <<repos, savedRepos, newRepos, remote, file, arff, idx, requested, faults,
                 failed, filtered, numFilteredOut, mergeVars, probeVars, throttleVars>>

ScheduleInit == RecoveryInit

\* doBatch(...) is called: it runs up to its first await
CallDoBatch(isLive) ==
    /\ live' = isLive
    /\ active' = active + 1
    /\ outcome' = "running"
    /\ col' = 0
    /\ collecting' = {}

\* line 829 and line 795: main() is called and awaits doBatch()
ScheduleStart ==
    /\ pc = "start"
    /\ pc' = "batch"
    /\ CallDoBatch(FALSE)
    /\ handlers' = InitialHandlers
    /\ UNCHANGED <<phase, iteration, sinceLive, timer, cool, unscheduled>>

\* the for-loop of line 806 comes to its next iteration, or main ends
NextLoop ==
    IF iteration < MaxLive
    THEN /\ pc' = "all"
         /\ phase' = "loop"
         /\ iteration' = iteration + 1
         /\ handlers' = LoopHandlers
         /\ CallDoBatch(TRUE)
         /\ timer' = "pending"
         /\ sinceLive' = 0
         /\ UNCHANGED cool
    ELSE /\ pc' = "finished"
         /\ UNCHANGED <<phase, iteration, handlers, live, active, outcome, col, collecting,
                        timer, sinceLive, cool>>

\* a rejection reaches the next .catch(e => cleanUpBatch(e)), which starts its
\* sleep (lines 785-787), or leaves main when no handler is left
Catch ==
    IF handlers > 0
    THEN /\ pc' = "cooldown"
         /\ handlers' = handlers - 1
         /\ cool' = CooldownMinutes
         /\ outcome' = "none"
         /\ UNCHANGED <<phase, iteration, live, active, col, collecting, timer, sinceLive>>
    ELSE /\ pc' = "exited"
         /\ outcome' = "none"
         /\ UNCHANGED <<phase, iteration, handlers, live, active, col, collecting, timer,
                        sinceLive, cool>>

\* lines 768 and 693: the batch has its records and calls its first collector
CollectorsStart ==
    /\ outcome = "running"
    /\ col = 0
    /\ col' = 1
    /\ collecting' = Launch(1)
    /\ UNCHANGED <<pc, phase, iteration, handlers, live, active, outcome, timer, sinceLive,
                   cool, unscheduled>>

\* a collector returns and getDetails goes on to its next call
CollectorReturns ==
    /\ outcome = "running"
    /\ col \in collecting
    /\ col' = col + 1
    /\ collecting' = (collecting \ {col}) \cup
                        (IF col < Len(Collectors) THEN Launch(col + 1) ELSE {})
    /\ UNCHANGED <<pc, phase, iteration, handlers, live, active, outcome, timer, sinceLive,
                   cool, unscheduled>>

\* the last collector has returned: the files are written and doBatch resolves
ScheduledBatchResolves ==
    /\ outcome = "running"
    /\ col > Len(Collectors)
    /\ collecting = {}
    /\ outcome' = "resolved"
    /\ active' = active - 1
    /\ UNCHANGED <<pc, phase, iteration, handlers, live, col, collecting, timer, sinceLive,
                   cool, unscheduled>>

\* the search or a collector throws: the for-loop that threw is left, the
\* finally block runs and doBatch rejects
ScheduledBatchRejects ==
    /\ outcome = "running"
    /\ col <= Len(Collectors)
    /\ outcome' = "rejected"
    /\ active' = active - 1
    /\ collecting' = collecting \ {col}
    /\ UNCHANGED <<pc, phase, iteration, handlers, live, col, timer, sinceLive, cool,
                   unscheduled>>

\* main resumes from await doBatch() (line 795 or line 788)
AwaitReturns ==
    /\ pc = "batch"
    /\ outcome \in {"resolved", "rejected"}
    /\ IF outcome = "resolved" THEN NextLoop ELSE Catch
    /\ UNCHANGED unscheduled

\* main resumes from await Promise.all (line 808)
AllReturns ==
    /\ pc = "all"
    /\ PromiseAll(outcome, timer) # "pending"
    /\ IF PromiseAll(outcome, timer) = "fulfilled" THEN NextLoop ELSE Catch
    /\ UNCHANGED unscheduled

\* cleanUpBatch's sleep is over: await doBatch() (line 788)
CooldownOver ==
    /\ pc = "cooldown"
    /\ cool = 0
    /\ pc' = "batch"
    /\ CallDoBatch(FALSE)
    /\ UNCHANGED <<phase, iteration, handlers, timer, sinceLive, cool, unscheduled>>

\* a minute passes
Tick ==
    /\ pc \in {"batch", "all", "cooldown"}
    /\ sinceLive < InterBatchMinutes \/ cool > 0
    /\ sinceLive' = (IF sinceLive < InterBatchMinutes THEN sinceLive + 1 ELSE sinceLive)
    /\ cool' = (IF cool > 0 THEN cool - 1 ELSE 0)
    /\ timer' = (IF timer = "pending" /\ sinceLive' >= InterBatchMinutes
                 THEN "fired" ELSE timer)
    /\ UNCHANGED <<pc, phase, iteration, handlers, live, active, outcome, col, collecting,
                   unscheduled>>

ScheduleNext ==
    \/ ScheduleStart
    \/ CollectorsStart
    \/ CollectorReturns
    \/ ScheduledBatchResolves
    \/ ScheduledBatchRejects
    \/ AwaitReturns
    \/ AllReturns
    \/ CooldownOver
    \/ Tick

SpecSchedule == ScheduleInit /\ [][ScheduleNext]_vars

\* C21 as claimed: between the starts of two consecutive live batches at
\* least InterBatchMinutes pass, whether the earlier one succeeded or failed
\* and was followed by recovery batches.
C21_LiveBatchesAreSpaced ==
    [][ (iteration >= 1 /\ iteration' = iteration + 1) =>
            sinceLive >= InterBatchMinutes ]_vars

(***************************************************************************)
(* The order of a batch's steps (Spec).                                    *)
(***************************************************************************)
\* getContributorCounts has passed over all records and its loop is left
CountsDone == pc = "collect" /\ col = 1 /\ idx > Len(repos.list)

Running(name) == pc = "collect" /\ Collectors[col] = name

\* the collector has returned for every record of the list: each has its key
DoneForAll(name) ==
    \A j \in 1..Len(repos.list) : hasOwnProperty(repos.list[j], Marker(name))

\* C23: while getReadmeLengths runs, getCommunityProfileMetrics has returned
\* for all records of the batch, and while getDeployments runs,
\* getEnvironments has; the collectors of a batch start in the order of the
\* sequence, one after the other.
C23_ProducersRunFirst ==
    /\ Running("getReadmeLengths") => DoneForAll("getCommunityProfileMetrics")
    /\ Running("getDeployments") => DoneForAll("getEnvironments")
    /\ pc = "collect" =>
          \A k \in 2..(col - 1) : DoneForAll(Collectors[k]) \/ Collectors[k] = "getDeployments"

\* getReadmeLengths is about to ask for the size of the README whose URL
\* getCommunityProfileMetrics has resolved
C23_Witness ==
    /\ Running("getReadmeLengths")
    /\ idx = 1
    /\ Len(repos.list) >= 1
    /\ hasOwnProperty(repos.list[1], "rawReadmeUrl")
    /\ ~hasOwnProperty(repos.list[1], "readme_size")

\* C24: at any moment at most one call of doBatch is in progress and at most
\* one collector is executing, and a collector executes only inside the
\* batch in progress; this holds through failures, cooldowns and recovery
\* batches.
C24_OneBatchOneCollector ==
    /\ active \in {0, 1}
    /\ Cardinality(collecting) <= 1
    /\ collecting # {} => active = 1 /\ outcome = "running"
    /\ active = 1 <=> outcome = "running"
    /\ pc = "cooldown" => active = 0

\* a recovery-only batch runs a collector while the three-minute sleep of
\* the live batch that failed is still pending
C24_Witness ==
    /\ pc = "batch"
    /\ phase = "loop"
    /\ ~live
    /\ timer = "pending"
    /\ active = 1
    /\ collecting = {5}

\* C25 as claimed: the dataset is written only by a batch whose collectors
\* and filter have all completed without error, and a batch that fails,
\* wherever it fails, leaves the dataset as it was and has written the
\* checkpoint when its error reaches main.
C25_DatasetOnlyOnSuccess ==
    [][ /\ arff' # arff =>
              /\ pc = "arff" /\ ~failed /\ filtered
              /\ \A k \in 1..Len(Collectors) :
                    DoneForAll(Collectors[k]) \/ Collectors[k] = "getDeployments"
              /\ arff'.rows = repos.list
        /\ failed => arff' = arff
        /\ (pc \in BatchPcs /\ pc' = "cooldown") =>
              /\ arff' = arff
              /\ pc = "writing" /\ file' = Written(repos.list) ]_vars

(***************************************************************************)
(* Scenarios.                                                              *)
(***************************************************************************)
\* the landing page gives a count: the sidebar figure, or 1 without a figure
Resolves(web) ==
    web.landing = 200 /\ (web.span.kind = "absent" \/ Truthy(ToNumber(web.span)))

\* the landing page has a figure that is no number ('1,234')
Unresolved(web) ==
    web.landing = 200 /\ web.span.kind # "absent" /\ ToNumber(web.span) = NaN

\* a live batch over an empty checkpoint whose search returned two
\* repositories, one with a count and one without
FreshRunOfTwo ==
    /\ live
    /\ savedRepos = <<>>
    /\ Len(newRepos) = 2
    /\ \E a \in {1, 2} :
          /\ Resolves(remote[Identity(newRepos[a])])
          /\ Unresolved(remote[Identity(newRepos[3 - a])])

ResumedRecord ==
    SetProp(SetProp(SearchResult("o1", "r1", 10), "contributor_count", Num(2)),
            "languages", <<"Go">>)

ResumeInit ==
    /\ remote \in [PipelineIds -> Profiles]
    /\ remote[Identity(ResumedRecord)] \in {Healthy, Bare}
    /\ file = Written(<<ResumedRecord>>)
    /\ arff = [written |-> FALSE, rows |-> <<>>]
    /\ repos = NullRepos
    /\ savedRepos = <<>>
    /\ newRepos = <<>>
    /\ pc = "start"
    /\ phase = "initial"
    /\ live = FALSE
    /\ iteration = 0
    /\ handlers = 0
    /\ col = 0
    /\ idx = 0
    /\ requested = FALSE
    /\ faults = 0
    /\ failed = FALSE
    /\ filtered = FALSE
    /\ numFilteredOut = 0
    /\ MergeIdle
    /\ ProbeIdle
    /\ ThrottleIdle
    /\ ScheduleIdle

SpecResume == ResumeInit /\ [][Next]_vars

\* the record at idx has its languages and no workflows_count
LanguagesOnly ==
    /\ pc = "collect"
    /\ idx <= Len(repos.list)
    /\ hasOwnProperty(repos.list[idx], "languages")
    /\ ~hasOwnProperty(repos.list[idx], "workflows_count")

\* C27: for a record that came back from the checkpoint with languages set
\* and without workflows_count, getWorkflows issues its request (and stores
\* workflows_count when the answer is 200 or 404), and getLanguages, for
\* every record that has languages, issues none and leaves the record as it
\* is; getLanguages never meets a record without workflows_count.
C27_WorkflowsAskedLanguagesNot ==
    [][ /\ (LanguagesOnly /\ pc' # "exited") =>
              /\ Collectors[col] \in {"getContributorCounts", "getWorkflows"}
              /\ Collectors[col] = "getWorkflows" =>
                    /\ requested'
                    /\ faults' = faults =>
                          hasOwnProperty(repos'.list[idx], "workflows_count")
                    /\ repos'.list[idx]["languages"] = repos.list[idx]["languages"]
        /\ ( /\ Running("getLanguages")
             /\ idx <= Len(repos.list)
             /\ hasOwnProperty(repos.list[idx], "languages")
             /\ pc' # "exited" ) =>
                  ~requested' /\ repos' = repos /\ idx' = idx + 1 ]_vars

\* in the first batch of the resumed process getLanguages has passed over
\* the record without a request: it has the workflows_count getWorkflows
\* asked for and the languages of the checkpoint
C27_Witness ==
    /\ phase = "initial"
    /\ Running("getLanguages")
    /\ idx = 2
    /\ ~requested
    /\ Len(repos.list) = 1
    /\ hasOwnProperty(repos.list[1], "workflows_count")
    /\ repos.list[1]["languages"] = <<"Go">>
    /\ faults = 0

(***************************************************************************)
(* Collectors with a default, collectors without (Spec).                   *)
(***************************************************************************)
\* the turn of the running collector for the record at idx, to its end
Turn == pc = "collect" /\ idx <= Len(repos.list) /\ pc' # "exited"

\* C28: getReadmeLengths never throws: a turn of its loop, whatever the
\* answer (a connection that fails, a status other than 200) and whether a
\* README URL was resolved or not, leaves the record with readme_size and
\* goes on to the next record; readme_size is 0 when the fetch failed or
\* there was no URL; once getReadmeLengths has returned every record of the
\* list has readme_size.
C28_ReadmeSizeNeverAborts ==
    [][ /\ (Turn /\ Running("getReadmeLengths")) =>
              LET repo == repos.list[idx] IN
              /\ pc' = "collect" /\ col' = col /\ idx' = idx + 1
              /\ failed' = failed
              /\ hasOwnProperty(repos'.list[idx], "readme_size")
              /\ ( /\ ~hasOwnProperty(repo, "readme_size")
                   /\ faults' # faults \/ ~hasOwnProperty(repo, "rawReadmeUrl") )
                      => repos'.list[idx]["readme_size"] = 0
              /\ \A web \in Profiles : \A fault \in Answers :
                    LET r == getReadmeLengths(repo, web, fault)
                    IN  ~r.threw /\ hasOwnProperty(r.repo, "readme_size")
        /\ (pc = "collect" /\ \E k \in 1..(col - 1) : Collectors[k] = "getReadmeLengths")
              => DoneForAll("getReadmeLengths") ]_vars

\* the HEAD request for a resolved README URL has failed: the record has
\* readme_size 0 and the loop has gone on
C28_Witness ==
    /\ Running("getReadmeLengths")
    /\ idx = 2
    /\ requested
    /\ ~failed
    /\ faults = 1
    /\ hasOwnProperty(repos.list[1], "rawReadmeUrl")
    /\ repos.list[1]["readme_size"] = 0
    /\ remote[Identity(repos.list[1])].contentLength > 0

\* the error statuses of the platform's side
PlatformErrors == {"http500", "http502"}

\* the record at idx gets a request from getDeployments
DeploymentsAsked ==
    /\ Turn
    /\ Running("getDeployments")
    /\ getDeployments(repos.list[idx], remote[Identity(repos.list[idx])], "none").requested

\* C29 as claimed: a deployments listing that fails with an error of the
\* platform's side, whichever, leaves the record with has_deployments = true,
\* and the loop goes on to the next record.
C29_PlatformErrorMeansDeployments ==
    [][ DeploymentsAsked =>
            /\ pc' = "collect" /\ idx' = idx + 1
            /\ \A fault \in PlatformErrors :
                  LET r == getDeployments(repos.list[idx], remote[Identity(repos.list[idx])],
                                          fault)
                  IN  /\ ~r.threw
                      /\ hasOwnProperty(r.repo, "has_deployments")
                      /\ r.repo["has_deployments"] = TRUE ]_vars

\* C29 amended: a deployments listing that fails with status 502 leaves the
\* record with has_deployments = true; one that fails in any other way (500,
\* a connection that fails) leaves the record as it is, without
\* has_deployments; in each case nothing is thrown and the loop goes on to
\* the next record.
C29_Only502MeansDeployments ==
    [][ DeploymentsAsked =>
            LET repo == repos.list[idx]
                web == remote[Identity(repo)]
            IN  /\ pc' = "collect" /\ idx' = idx + 1 /\ failed' = failed
                /\ getDeployments(repo, web, "http502") =
                      Collected(SetProp(repo, "has_deployments", TRUE))
                /\ \A fault \in FaultKinds \ {"http502"} :
                      getDeployments(repo, web, fault) = Collected(repo)
                /\ faults' # faults =>
                      repos'.list[idx] \in {repo, SetProp(repo, "has_deployments", TRUE)}
                /\ faults' = faults =>
                      repos'.list[idx] = SetProp(repo, "has_deployments", web.deployments > 0) ]_vars

\* the deployments listing of the first record has failed with an error
\* other than 502: the loop has gone on and the record has no has_deployments
C29_Witness ==
    /\ Running("getDeployments")
    /\ idx = 2
    /\ requested
    /\ ~failed
    /\ faults = 1
    /\ ~hasOwnProperty(repos.list[1], "has_deployments")
    /\ Len(repos.list[1]["environments"]) > 0

\* the collectors that read a page of the site and test its status
PageScrapers ==
    {"getContributorCounts", "getWorkflows", "getReleases", "getIssueLabelsCount",
     "getMilestones"}

\* the collectors that store what doesAnyFileExist returns
PresenceCollectors ==
    {"getSupportFiles", "getFundingFiles", "getSecurityFiles", "getCodeowners",
     "getChangelog", "getCodespaces", "getDiscussions", "getDependabot"}

\* the batch is aborted at the record at idx, which is as it was
Aborted ==
    /\ pc' = "finally"
    /\ failed'
    /\ repos' = repos
    /\ col' = col
    /\ idx' = idx

\* C30: a page-scraping collector that gets a status it does not expect (or
\* no answer), and a presence collector whose probe fails, throw: the batch
\* goes to its finally block with the record as it was, its target attribute
\* absent, never stored as false or 0; a record without the attribute gets
\* its request again when the collector next meets it.
C30_UnexpectedStatusAborts ==
    [][ (Turn /\ ~hasOwnProperty(repos.list[idx], Marker(Collectors[col]))) =>
            LET name == Collectors[col]
                repo == repos.list[idx]
                web == remote[Identity(repo)]
            IN  /\ name \in PageScrapers =>
                      /\ requested'
                      /\ \A fault \in FaultKinds : RunCollector(name, repo, web, fault) = Thrown(repo)
                      /\ faults' # faults => Aborted
                /\ name \in PresenceCollectors =>
                      /\ requested'
                      /\ \A fault \in FaultKinds :
                            LET r == RunCollector(name, repo, web, fault)
                            IN  \/ r = Thrown(repo)
                                \/ web.present /\ r = Collected(SetProp(repo, Marker(name), TRUE))
                      /\ faults' # faults =>
                            \/ Aborted
                            \/ /\ web.present
                               /\ pc' = "collect"
                               /\ repos'.list[idx] = SetProp(repo, Marker(name), TRUE)
                /\ (name \in PageScrapers \cup PresenceCollectors /\ pc' = "finally") =>
                      Aborted ]_vars

\* getMilestones has thrown on the first record: the batch is in its finally
\* block and the record, which has its labels_count, has no milestones_count
C30_Witness ==
    /\ pc = "finally"
    /\ failed
    /\ requested
    /\ col <= Len(Collectors)
    /\ Collectors[col] = "getMilestones"
    /\ idx = 1
    /\ hasOwnProperty(repos.list[1], "labels_count")
    /\ ~hasOwnProperty(repos.list[1], "milestones_count")

(***************************************************************************)
(* The end of a batch (Spec).                                              *)
(***************************************************************************)
\* C31 as claimed: in a successful batch the checkpoint is persisted before
\* the dataset is emitted: when line 774 writes the dataset, the filter has
\* run and the checkpoint on disk holds the records of the batch.
C31_CheckpointBeforeDataset ==
    [][ (pc = "arff" /\ arff' # arff) => filtered /\ file = Written(repos.list) ]_vars

\* C31 amended: in a successful batch the dataset is emitted before the
\* checkpoint is persisted (filter, dataset, checkpoint): the dataset is
\* written after the filter has run, and whenever a batch that has not failed
\* is in its finally block or is writing the checkpoint, the dataset has
\* been written from the records it persists.
C31_DatasetBeforeCheckpoint ==
    /\ pc = "arff" => filtered /\ ~failed
    /\ (pc \in {"finally", "writing"} /\ ~failed) =>
          /\ filtered
          /\ arff.written
          /\ arff.rows = repos.list

\* a live batch that has not failed is writing the checkpoint, the dataset of
\* its records is on disk and the checkpoint is not yet
C31_Witness ==
    /\ pc = "writing"
    /\ live
    /\ ~failed
    /\ file = Partial
    /\ Len(repos.list) >= 1
    /\ arff.rows = repos.list

(***************************************************************************)
(* Environments and deployments (Spec).                                    *)
(***************************************************************************)
\* has_deployments is there only with environments, and true only with some
Consistent(repo) ==
    hasOwnProperty(repo, "has_deployments") =>
        /\ hasOwnProperty(repo, "environments")
        /\ repo["has_deployments"] = TRUE => Len(repo["environments"]) > 0

\* the record has an empty list of environments
NoEnvironments(repo) ==
    hasOwnProperty(repo, "environments") /\ Len(repo["environments"]) = 0

\* C32: a record with an empty environments list and without has_deployments
\* gets has_deployments = false from getDeployments, whatever the platform
\* would answer and without a request; and in every state of a process
\* started on an empty checkpoint, in memory, in the checkpoint and in the
\* dataset, a record with has_deployments has environments, and one with
\* has_deployments = true has a non-empty environments list.
C32_ZeroEnvironmentsNoDeployments ==
    /\ \A j \in 1..Len(repos.list) : Consistent(repos.list[j])
    /\ \A j \in 1..Len(file.data) : Consistent(file.data[j])
    /\ \A j \in 1..Len(arff.rows) : Consistent(arff.rows[j])
    /\ Running("getDeployments") =>
          /\ \A j \in 1..Len(repos.list) :
                /\ hasOwnProperty(repos.list[j], "environments")
                /\ (j < idx /\ NoEnvironments(repos.list[j])) =>
                      /\ hasOwnProperty(repos.list[j], "has_deployments")
                      /\ repos.list[j]["has_deployments"] = FALSE
                /\ (NoEnvironments(repos.list[j])
                        /\ ~hasOwnProperty(repos.list[j], "has_deployments")) =>
                      \A web \in Profiles : \A fault \in Answers :
                          getDeployments(repos.list[j], web, fault) =
                              [repo |-> SetProp(repos.list[j], "has_deployments", FALSE),
                               threw |-> FALSE, requested |-> FALSE]
          /\ (idx > 1 /\ NoEnvironments(repos.list[idx - 1])) => ~requested

\* getDeployments has passed the first record, which has no environments,
\* without a request: the record has has_deployments = false
C32_Witness ==
    /\ Running("getDeployments")
    /\ idx = 2
    /\ ~requested
    /\ NoEnvironments(repos.list[1])
    /\ repos.list[1]["has_deployments"] = FALSE
    /\ phase = "loop"
    /\ iteration = 1

(***************************************************************************)
(* One pass of a collector (Spec).                                         *)
(***************************************************************************)
\* the usual answer to the request for the record at idx makes the running
\* collector throw
ThrowsAsUsual ==
    RunCollector(Collectors[col], repos.list[idx], remote[Identity(repos.list[idx])],
                 "none").threw

\* C33: a collector handles the records one after the other, in the order
\* of the list: a turn touches the record at idx alone and goes on to the
\* next one; when a turn throws, the batch goes to its finally block with
\* every earlier record holding the collector's attribute, the record at idx
\* without it and the later records as they were, and from there no
\* collector runs and no dataset is written before the batch has settled.
C33_OneRecordAfterTheOther ==
    [][ /\ Turn =>
              /\ \A j \in 1..Len(repos.list) : j # idx => repos'.list[j] = repos.list[j]
              /\ Len(repos'.list) = Len(repos.list)
              /\ col' = col
              /\ pc' \in {"collect", "finally"}
              /\ pc' = "collect" => idx' = idx + 1 /\ failed' = failed
              /\ (faults' = faults /\ ThrowsAsUsual) => pc' = "finally"
              /\ pc' = "finally" =>
                    /\ Aborted
                    /\ ~hasOwnProperty(repos.list[idx], Marker(Collectors[col]))
                    /\ \A j \in 1..(idx - 1) :
                          hasOwnProperty(repos.list[j], Marker(Collectors[col]))
        /\ (pc \in {"finally", "writing"} /\ failed) =>
              /\ pc' \in {"finally", "writing", "cooldown", "exited"}
              /\ arff' = arff
              /\ pc' # "exited" => repos' = repos ]_vars

\* getIssueLabelsCount has thrown at the second of two records: the first
\* has its labels_count, the second has none, and getMilestones, the next
\* collector, has not run on either
C33_Witness ==
    /\ pc = "finally"
    /\ failed
    /\ Collectors[col] = "getIssueLabelsCount"
    /\ idx = 2
    /\ Len(repos.list) = 2
    /\ hasOwnProperty(repos.list[1], "labels_count")
    /\ ~hasOwnProperty(repos.list[2], "labels_count")
    /\ ~hasOwnProperty(repos.list[1], "milestones_count")
    /\ ~hasOwnProperty(repos.list[2], "milestones_count")

(***************************************************************************)
(* What a dataset row holds (Spec).                                        *)
(***************************************************************************)
\* the attributes the collectors set, has_deployments apart
CollectedAttributes ==
    {"contributor_count", "workflows_count", "has_code_of_conduct", "has_contributing",
     "has_issue_template", "has_pull_request_template", "readme_size", "languages",
     "has_support_file", "environments", "has_funding_file", "has_releases",
     "labels_count", "milestones_count", "has_security_file", "has_codeowners",
     "has_changelog", "has_codespaces", "has_discussions", "uses_dependabot"}

Complete(repo) == \A key \in CollectedAttributes : hasOwnProperty(repo, key)

\* C34: the dataset is written from records that hold every collected
\* attribute, has_deployments apart: every row of the dataset is complete,
\* and so is every record in memory from the moment line 774 is awaited to
\* the end of a batch that has not failed.
C34_DatasetRowsAreComplete ==
    /\ \A j \in 1..Len(arff.rows) : Complete(arff.rows[j])
    /\ (pc \in {"arff", "finally", "writing"} /\ ~failed) =>
          \A j \in 1..Len(repos.list) : Complete(repos.list[j])

\* a live batch has written a dataset row that holds everything but
\* has_deployments, and its sleep has begun
C34_Witness ==
    /\ pc = "idle"
    /\ arff.written
    /\ Len(arff.rows) >= 1
    /\ Complete(arff.rows[1])
    /\ ~hasOwnProperty(arff.rows[1], "has_deployments")
    /\ file = Written(arff.rows)

\* the record holds has_deployments
Decided(repo) == hasOwnProperty(repo, "has_deployments")

C36_EnvironmentsErrorIsEmptyList ==
    /\ (pc \in {"finally", "writing"} /\ failed) => Collectors[col] # "getEnvironments"
    /\ Running("getEnvironments") =>
          /\ \A j \in 1..Len(repos.list) :
                /\ j < idx => hasOwnProperty(repos.list[j], "environments")
                /\ ~hasOwnProperty(repos.list[j], "environments") =>
                      \A web \in Profiles : \A fault \in FaultKinds :
                          LET r == getEnvironments(repos.list[j], web, fault)
                              back == StringifyRepo(r.repo)
                          IN  /\ r = Collected(SetProp(repos.list[j], "environments", <<>>))
                              /\ \A later \in Answers :
                                    /\ getEnvironments(r.repo, web, later) = Skipped(r.repo)
                                    /\ getEnvironments(back, web, later) = Skipped(back)
                                    /\ ~Decided(back) =>
                                          getDeployments(back, web, later) =
                                              [repo |-> SetProp(back, "has_deployments", FALSE),
                                               threw |-> FALSE, requested |-> FALSE]
          /\ (idx > 1 /\ Decided(repos.list[idx - 1])) => ~requested
    /\ \A j \in 1..Len(repos.list) :
          ( /\ NoEnvironments(repos.list[j])
            /\ remote[Identity(repos.list[j])].environments # <<>> ) =>
                /\ faults >= 1
                /\ Decided(repos.list[j]) => repos.list[j]["has_deployments"] = FALSE

\* in the second live batch getEnvironments has passed over a record
\* without a request: its listing failed in an earlier batch, so that it has
\* environments = [] and has_deployments = false although the repository has
\* an environment and a deployment
C36_Witness ==
    /\ Running("getEnvironments")
    /\ iteration = 2
    /\ idx = 2
    /\ ~requested
    /\ faults = 1
    /\ NoEnvironments(repos.list[1])
    /\ remote[Identity(repos.list[1])].environments # <<>>
    /\ remote[Identity(repos.list[1])].deployments > 0
    /\ Decided(repos.list[1])
    /\ repos.list[1]["has_deployments"] = FALSE

(***************************************************************************)
(* The merge of a search into the checkpoint (Spec).                       *)
(***************************************************************************)
\* the search has returned the repository of a record
Rediscovered(saved) == \E k \in 1..Len(newRepos) : SameRepo(newRepos[k], saved)

\* C37: the merge of line 764 leaves the records of the checkpoint the
\* batch has read as they are and where they are, whether the search has
\* returned their repositories again or not: right after the merge the list
\* begins with these records, none of their fields replaced by what the
\* search returned, and what follows are the records of repositories the
\* checkpoint did not hold; while getContributorCounts runs they keep every
\* field they had.
C37_RediscoveryChangesNothing ==
    /\ pc = "discover" =>
          \A page \in Pages(iteration) :
              SubSeq(removeDuplicateRepos(savedRepos \o page), 1, Len(savedRepos)) = savedRepos
    /\ (pc = "collect" /\ col = 1) =>
          /\ Len(repos.list) >= Len(savedRepos)
          /\ \A j \in 1..Len(savedRepos) :
                /\ SameRepo(repos.list[j], savedRepos[j])
                /\ Kept(savedRepos[j], repos.list[j])
                /\ idx = 1 => repos.list[j] = savedRepos[j]
          /\ \A j \in (Len(savedRepos) + 1)..Len(repos.list) :
                /\ \A k \in 1..Len(savedRepos) : ~SameRepo(repos.list[j], savedRepos[k])
                /\ Rediscovered(repos.list[j])

\* the search of the second live batch has returned, with a new star count,
\* a repository whose record the checkpoint holds with its collected
\* attributes: the merged list holds the record of the checkpoint
C37_Witness ==
    /\ pc = "collect"
    /\ col = 1
    /\ idx = 1
    /\ live
    /\ Len(savedRepos) >= 1
    /\ Complete(savedRepos[1])
    /\ \E k \in 1..Len(newRepos) :
          /\ SameRepo(newRepos[k], savedRepos[1])
          /\ newRepos[k]["stargazers_count"] # savedRepos[1]["stargazers_count"]
    /\ repos.list[1] = savedRepos[1]
    /\ Len(repos.list) = 1

(***************************************************************************)
(* The first batch of a run (Spec).                                        *)
(***************************************************************************)
\* C38: until the first call of doBatch and the recovery batches that follow
\* its failures have come to an end, every batch is a recovery-only batch and
\* no search is awaited; the process having started without a checkpoint,
\* these batches work on an empty list.  The search is awaited only in the
\* loop, which is entered only after one of these batches has resolved, its
\* dataset and its checkpoint written.
C38_FirstBatchIsRecoveryOnly ==
    /\ phase = "initial" =>
          /\ ~live
          /\ iteration = 0
          /\ pc \notin {"discover", "idle"}
          /\ newRepos = <<>>
          /\ repos.list = <<>>
          /\ arff.rows = <<>>
          /\ file.data = <<>>
          /\ handlers <= InitialHandlers
    /\ pc = "discover" => phase = "loop" /\ live /\ iteration >= 1
    /\ phase = "loop" =>
          /\ iteration >= 1
          /\ arff.written
          /\ file.state # "missing"

\* the first batch has failed and the recovery-only batch that followed it
\* is writing its checkpoint: no record, no search so far
C38_Witness ==
    /\ phase = "initial"
    /\ pc = "writing"
    /\ handlers = InitialHandlers - 1
    /\ ~failed
    /\ ~live
    /\ repos = ReposOf(<<>>)
    /\ arff.written

(***************************************************************************)
(* SpecTermination: main and cleanUpBatch as in SpecRecovery, with every   *)
(* await of main returning in the end: a call of doBatch settles, a sleep  *)
(* is over.                                                                *)
(***************************************************************************)
SpecTermination == RecoveryInit /\ [][RecoveryNext]_vars /\ WF_vars(RecoveryNext)

\* the handlers main has for the failures of the batch it is at
HandlersGiven == IF phase = "initial" THEN InitialHandlers ELSE LoopHandlers

\* the recovery-only batches cleanUpBatch has started since the first batch
\* (phase "initial") or since the live batch of this iteration
Recoveries == HandlersGiven - handlers

\* C39: main comes to its end, by returning or by rejecting: it starts at
\* most MaxLive live batches, one per iteration of its loop; a failed live
\* batch is followed by at most LoopHandlers recovery-only batches and the
\* first batch of the run by at most InitialHandlers; and the first
\* recovery-only batch that resolves ends the recovery: main goes on to the
\* next iteration of its loop or returns.
C39_MainTerminates ==
    /\ <>(pc \in {"finished", "exited"})
    /\ [](iteration <= MaxLive /\ handlers <= HandlersGiven)
    /\ [][ /\ (pc = "load" /\ pc' = "cooldown") => handlers' = handlers - 1
           /\ (pc = "cooldown" /\ pc' = "load") =>
                 /\ ~live'
                 /\ Recoveries' = Recoveries
                 /\ Recoveries \in 1..HandlersGiven
           /\ (iteration' # iteration /\ pc' # "exited") =>
                 /\ iteration' = iteration + 1
                 /\ pc' = "load" /\ live'
                 /\ Recoveries' = 0
           /\ (pc' = "load" /\ live') => iteration' = iteration + 1
           /\ (pc = "load" /\ ~live /\ pc' \notin {"cooldown", "exited"}) =>
                 \/ pc' = "load" /\ live' /\ iteration' = iteration + 1
                 \/ pc' = "finished" /\ iteration = MaxLive ]_vars

\* main has returned after its last iteration, in which the live batch and
\* nine recovery-only batches failed and the tenth resolved
C39_Witness ==
    /\ pc = "finished"
    /\ iteration = MaxLive
    /\ phase = "loop"
    /\ handlers = 0
    /\ faults >= LoopHandlers

(***************************************************************************)
(* SpecWorkflows: getWorkflows (src/index.js:230-251) over two valid       *)
(* records, for every answer of the workflows directory page: 404, or 200  *)
(* with any number of elements that match div[role="row"].                 *)
(***************************************************************************)
MaxRows == 4         \* elements the selector of line 244 matches

\* the workflows directory page of a repository
WorkflowPages ==
    {[Healthy EXCEPT !.workflows = status, !.rows = rows] :
        status \in {200, 404}, rows \in 0..MaxRows}

\* a record as line 770 leaves it
ValidRecord(id) == SetProp(SearchResult(id[1], id[2], 10), "contributor_count", Num(2))

\* getDetails has called getWorkflows (line 693)
WorkflowsInit ==
    /\ remote \in [PipelineIds -> WorkflowPages]
    /\ repos = ReposOf(<<ValidRecord(<<"o1", "r1">>), ValidRecord(<<"o1", "r2">>)>>)
    /\ savedRepos = <<>>
    /\ newRepos = <<>>
    /\ file = [state |-> "missing", data |-> <<>>]
    /\ arff = [written |-> FALSE, rows |-> <<>>]
    /\ pc = "collect"
    /\ phase = "loop"
    /\ live = TRUE
    /\ iteration = 1
    /\ handlers = LoopHandlers
    /\ col = 2
    /\ idx = 1
    /\ requested = FALSE
    /\ faults = 0
    /\ failed = FALSE
    /\ filtered = TRUE
    /\ numFilteredOut = 0
    /\ remerged = <<>>
    /\ mergePc = "idle"
    /\ ProbeIdle
    /\ ThrottleIdle
    /\ ScheduleIdle

SpecWorkflows == WorkflowsInit /\ [][CollectRepo]_vars

\* C40 as claimed: the workflows_count getWorkflows stores is never
\* negative, whatever the number of elements the selector matches on the
\* page (0, 1, 2, ...) and when the page answers 404.
C40_WorkflowsCountNeverNegative ==
    \A j \in 1..Len(repos.list) :
        hasOwnProperty(repos.list[j], "workflows_count") =>
            repos.list[j]["workflows_count"] >= 0

====
